---------------------------- MODULE Spec2Model ----------------------------
(***************************************************************************)
(* A model of the merge-request review bot: webhook routing                *)
(* (webhook_handler.py), the per-MR workspace (git_service.py,             *)
(* workspace_manager.py), diff chunking (git_service.py), the assistant    *)
(* subprocess (service/common/aider_subprocess.py), the overview           *)
(* map/reduce and its output parser (service/review_service.py) and the    *)
(* publishing client (gitlab_client.py).                                   *)
(*                                                                         *)
(* Texts are sequences of one-character strings, so that slicing, line     *)
(* splitting, trimming and searching are computed character by character   *)
(* as the Python code computes them.                                       *)
(***************************************************************************)
EXTENDS Integers, Sequences, FiniteSets, TLC

VARIABLES
    content,      \* split_diff_into_chunks: the diff text handed in
    max_chars,    \* split_diff_into_chunks: the limit handed in
    chunks,       \* split_diff_into_chunks: the list returned
    chunk_pc,     \* "idle" | "call" | "done"
    raw,          \* parse_overview_output: the assistant text handed in
    parsed,       \* parse_overview_output: the (title, description) returned
    parse_pc,     \* "idle" | "call" | "done"
    payload,      \* route_webhook: the webhook payload handed in
    response,     \* route_webhook: the status returned, "raised" for an exception
    scheduled,    \* route_webhook: the background tasks it added
    route_pc,     \* "idle" | "call" | "done"
    settings,     \* the settings object handed to every function
    proc,         \* _run_aider_subprocess: what subprocess.run did
    aider_ret,    \* _run_aider_subprocess: what the call gave back
    aider_pc,     \* "idle" | "call" | "done"
    events,       \* the status answered to each webhook received, in order
    tasks,        \* the background tasks scheduled so far, with their locals
    fs,           \* workspace path -> what the file system holds there
    calls,        \* the GitLab API calls issued, in order
    history,      \* the calls made on one workspace in a row, each with what it ran
    log           \* the lines logged by the call observed

chunkVars == <<content, max_chars, chunks, chunk_pc>>
parseVars == <<raw, parsed, parse_pc>>
routeVars == <<payload, response, scheduled, route_pc>>
aiderVars == <<proc, aider_ret, aider_pc>>
taskVars == <<events, tasks, fs, calls, history, log>>
vars == <<chunkVars, parseVars, routeVars, settings, aiderVars, taskVars>>

---------------------------------------------------------------------------
(* Text helpers: Python str operations on sequences of characters.         *)

NL == "\n"

\* str.strip() / str.rstrip() trim these (the only whitespace of the alphabet)
Whitespace == {" ", NL}

RECURSIVE Concat(_)
\* "".join(parts)
Concat(parts) ==
    IF parts = <<>> THEN <<>> ELSE Head(parts) \o Concat(Tail(parts))

\* s[:n] for n >= 0
Prefix(s, n) == SubSeq(s, 1, IF n < Len(s) THEN n ELSE Len(s))

\* s[i:] for a 1-based i
From(s, i) == SubSeq(s, i, Len(s))

\* true when text s holds the literal p at 1-based offset i
MatchAt(s, i, p) ==
    /\ i + Len(p) - 1 <= Len(s)
    /\ \A k \in 1..Len(p) : s[i + k - 1] = p[k]

\* str.startswith
StartsWith(s, p) == MatchAt(s, 1, p)

RECURSIVE LStrip(_)
LStrip(s) ==
    IF s # <<>> /\ Head(s) \in Whitespace THEN LStrip(Tail(s)) ELSE s

RECURSIVE RStrip(_)
RStrip(s) ==
    IF s # <<>> /\ s[Len(s)] \in Whitespace
    THEN RStrip(SubSeq(s, 1, Len(s) - 1))
    ELSE s

\* str.strip()
Strip(s) == LStrip(RStrip(s))

RECURSIVE SplitLinesFrom(_, _)
\* the lines of s, cur being the line read so far
SplitLinesFrom(s, cur) ==
    IF s = <<>> THEN (IF cur = <<>> THEN <<>> ELSE <<cur>>)
    ELSE IF Head(s) = NL THEN <<cur>> \o SplitLinesFrom(Tail(s), <<>>)
    ELSE SplitLinesFrom(Tail(s), Append(cur, Head(s)))

\* str.splitlines(): no trailing empty line, "" gives []
SplitLines(s) == SplitLinesFrom(s, <<>>)

RECURSIVE JoinLines(_)
\* "\n".join(lines)
JoinLines(lines) ==
    IF lines = <<>> THEN <<>>
    ELSE IF Len(lines) = 1 THEN Head(lines)
    ELSE Head(lines) \o <<NL>> \o JoinLines(Tail(lines))

---------------------------------------------------------------------------
(* git_service.py: split_diff_into_chunks                                  *)

\* the literal of _DIFF_FILE_HEADER
DIFF_FILE_HEADER == <<"d", "i", "f", "f", " ", "-", "-", "g", "i", "t", " ">>

\* [m.start() for m in _DIFF_FILE_HEADER.finditer(content)], 1-based:
\* '^' under re.MULTILINE matches at the start of the text and after a newline
Boundaries(c) ==
    { i \in 1..Len(c) :
        /\ (i = 1 \/ c[i - 1] = NL)
        /\ MatchAt(c, i, DIFF_FILE_HEADER) }

\* the offsets in increasing order
RECURSIVE SortedSeq(_)
SortedSeq(S) ==
    IF S = {} THEN <<>>
    ELSE LET m == CHOOSE x \in S : \A y \in S : x <= y
         IN  <<m>> \o SortedSeq(S \ {m})

\* file_diffs: content[start:end] for each boundary, end the next boundary or
\* len(content)
FileDiffs(c) ==
    LET b == SortedSeq(Boundaries(c))
    IN  [i \in 1..Len(b) |->
            SubSeq(c, b[i], IF i + 1 <= Len(b) THEN b[i + 1] - 1 ELSE Len(c))]

RECURSIVE PackEach(_, _, _, _)
\* a packing loop that starts a new chunk at every section
PackEach(fds, out, current, L) ==
    IF fds = <<>>
    THEN (IF current # <<>> THEN Append(out, current) ELSE out)
    ELSE LET fd == IF Len(Head(fds)) > L THEN Prefix(Head(fds), L) ELSE Head(fds)
         IN  IF current # <<>>
             THEN PackEach(Tail(fds), Append(out, current), fd, L)
             ELSE PackEach(Tail(fds), out, fd, L)

RECURSIVE Pack(_, _, _, _)
\* the packing loop over file_diffs, then the trailing "if current"
Pack(fds, out, current, L) ==
    IF fds = <<>>
    THEN (IF current # <<>> THEN Append(out, current) ELSE out)
    ELSE LET fd == IF Len(Head(fds)) > L THEN Prefix(Head(fds), L) ELSE Head(fds)
         IN  IF current # <<>> /\ Len(current) + Len(fd) > L
             THEN Pack(Tail(fds), Append(out, current), fd, L)
             ELSE Pack(Tail(fds), out, current \o fd, L)

\* split_diff_into_chunks with the slice of the marker-less branch and the
\* truncation of over-long sections forgotten
split_diff_unbounded(c, L) ==
    IF Boundaries(c) = {}
    THEN <<c>>
    ELSE Pack(FileDiffs(c), <<>>, <<>>, Len(c) + L)

split_diff_into_chunks(c, L) ==
    IF Boundaries(c) = {}
    THEN <<Prefix(c, L)>>
    ELSE Pack(FileDiffs(c), <<>>, <<>>, L)

---------------------------------------------------------------------------
(* Inputs of the chunker: diff texts put together from a few fragments, so *)
(* that file headers at a line start, headers in mid line, text before the *)
(* first header and sections longer than the limit all occur.              *)

MaxFrags == 5
MaxChars == 26

FragHeader == DIFF_FILE_HEADER \o <<"a">>
Frags == { FragHeader, <<NL>>, <<"x">> }

RECURSIVE FragSeqs(_)
FragSeqs(n) ==
    IF n = 0 THEN { <<>> }
    ELSE LET shorter == FragSeqs(n - 1)
         IN  shorter \cup { Append(s, f) : s \in { t \in shorter : Len(t) = n - 1 }, f \in Frags }

DiffTexts == { Concat(s) : s \in FragSeqs(MaxFrags) }

ChunkIdle ==
    /\ content = <<>>
    /\ max_chars = 1
    /\ chunks = <<>>
    /\ chunk_pc = "idle"

ChunkInit ==
    /\ content \in DiffTexts
    /\ max_chars \in 1..MaxChars
    /\ chunks = <<>>
    /\ chunk_pc = "call"

SplitCall ==
    /\ chunk_pc = "call"
    /\ chunks' = split_diff_into_chunks(content, max_chars)
    /\ chunk_pc' = "done"
    /\ UNCHANGED <<content, max_chars, parseVars, routeVars, settings, aiderVars, taskVars>>

---------------------------------------------------------------------------
(* service/review_service.py: parse_overview_output                        *)

TITLE_MARK == <<"T", "I", "T", "L", "E", ":">>
SEPARATOR == <<"-", "-", "-">>

\* the index of the first line whose strip() starts with "TITLE:", 0 for none
\* (title_line_idx, 1-based; the loop breaks at the first such line)
TitleLineIdx(lines) ==
    LET hits == { i \in 1..Len(lines) : StartsWith(Strip(lines[i]), TITLE_MARK) }
    IN  IF hits = {} THEN 0 ELSE CHOOSE i \in hits : \A j \in hits : i <= j

\* line.strip()[len("TITLE:"):].strip() of the title line, "" when there is none
TitleOf(lines) ==
    LET i == TitleLineIdx(lines)
    IN  IF i = 0 THEN <<>> ELSE Strip(From(Strip(lines[i]), Len(TITLE_MARK) + 1))

\* desc_start (1-based): the line after the first "---" among the up to three
\* lines after the title line, else the line after the title line
DescStart(lines, idx) ==
    LET window == { i \in (idx + 1)..(IF idx + 3 < Len(lines) THEN idx + 3 ELSE Len(lines)) :
                        Strip(lines[i]) = SEPARATOR }
    IN  IF window = {} THEN idx + 1
        ELSE (CHOOSE i \in window : \A j \in window : i <= j) + 1

\* the fallback test of the code: "if not title"
ParseFallsBack(lines) == TitleOf(lines) = <<>>

parse_overview_output(r) ==
    LET lines == SplitLines(Strip(r))
    IN  IF ParseFallsBack(lines)
        THEN [title |-> <<>>, description |-> r]
        ELSE [title |-> TitleOf(lines),
              description |->
                  Strip(JoinLines(SubSeq(lines, DescStart(lines, TitleLineIdx(lines)), Len(lines))))]

(* Inputs of the parser: texts of up to MaxLines lines drawn from a few     *)
(* lines: a title line, a title line with surrounding blanks, a title line  *)
(* with nothing after the marker, the separator, a body line, a blank line. *)

MaxLines == 5

SampleLines ==
    { TITLE_MARK \o <<" ", "a">>,
      <<" ">> \o TITLE_MARK \o <<"c", " ">>,
      TITLE_MARK,
      SEPARATOR,
      <<"b">>,
      <<>> }

RECURSIVE LineSeqs(_)
LineSeqs(n) ==
    IF n = 0 THEN { <<>> }
    ELSE LET shorter == LineSeqs(n - 1)
         IN  shorter \cup { Append(s, l) : s \in { t \in shorter : Len(t) = n - 1 }, l \in SampleLines }

RawTexts == { JoinLines(ls) : ls \in LineSeqs(MaxLines) }

ParseIdle ==
    /\ raw = <<>>
    /\ parsed = [title |-> <<>>, description |-> <<>>]
    /\ parse_pc = "idle"

ParseInit ==
    /\ raw \in RawTexts
    /\ parsed = [title |-> <<>>, description |-> <<>>]
    /\ parse_pc = "call"

ParseCall ==
    /\ parse_pc = "call"
    /\ parsed' = parse_overview_output(raw)
    /\ parse_pc' = "done"
    /\ UNCHANGED <<raw, chunkVars, routeVars, settings, aiderVars, taskVars>>

---------------------------------------------------------------------------
(* Python values of a JSON payload.  A value is tagged with its kind:      *)
(* "none" (None, JSON null), "str" (a str kept whole), "text" (a str kept   *)
(* as its characters), "int", "obj" (a dict, v its key -> value function).  *)

NONE == [k |-> "none"]
PStr(s) == [k |-> "str", v |-> s]
PText(cs) == [k |-> "text", v |-> cs]
PInt(n) == [k |-> "int", v |-> n]
PObj(f) == [k |-> "obj", v |-> f]
EmptyObj == PObj(<<>>)

IsObj(x) == x.k = "obj"

\* dict.get(key): None when the key is missing
Get(obj, key) == IF key \in DOMAIN obj.v THEN obj.v[key] ELSE NONE

\* dict.get(key, default)
GetOr(obj, key, default) == IF key \in DOMAIN obj.v THEN obj.v[key] ELSE default

\* bool(x)
Truthy(x) ==
    CASE x.k = "none" -> FALSE
      [] x.k = "str"  -> x.v # ""
      [] x.k = "text" -> x.v # <<>>
      [] x.k = "int"  -> x.v # 0
      [] x.k = "obj"  -> DOMAIN x.v # {}

DigitStr == <<"1", "2", "3", "4", "5", "6", "7", "8", "9">>

\* str(x) of None, a str or a one-digit int
PyStr(x) ==
    CASE x.k = "none" -> "None"
      [] x.k = "str"  -> x.v
      [] x.k = "int"  -> IF x.v = 0 THEN "0" ELSE DigitStr[x.v]

UpperAlpha == <<"A", "B", "C", "D", "E", "F", "G", "H", "I", "J", "K", "L", "M",
                "N", "O", "P", "Q", "R", "S", "T", "U", "V", "W", "X", "Y", "Z">>
LowerAlpha == <<"a", "b", "c", "d", "e", "f", "g", "h", "i", "j", "k", "l", "m",
                "n", "o", "p", "q", "r", "s", "t", "u", "v", "w", "x", "y", "z">>

\* str.lower()
Lower(s) ==
    [i \in 1..Len(s) |->
        IF \E j \in 1..26 : UpperAlpha[j] = s[i]
        THEN LowerAlpha[CHOOSE j \in 1..26 : UpperAlpha[j] = s[i]]
        ELSE s[i]]

\* sub in s
Contains(s, sub) == \E i \in 1..(Len(s) + 1) : MatchAt(s, i, sub)

RECURSIVE Remove(_, _)
\* s.replace(sub, "") for a non-empty sub
Remove(s, sub) ==
    IF s = <<>> THEN <<>>
    ELSE IF MatchAt(s, 1, sub) THEN Remove(From(s, Len(sub) + 1), sub)
    ELSE <<Head(s)>> \o Remove(Tail(s), sub)

---------------------------------------------------------------------------
(* webhook_handler.py: route_webhook                                       *)

MENTION == <<"@", "a", "i", "d", "e", "r">>

Returned(status, scheduled_tasks) ==
    [raised |-> FALSE, status |-> status, tasks |-> scheduled_tasks]

\* an exception leaves route_webhook: nothing is returned (the AttributeError
\* of calling .get or .lower on None)
Raised == [raised |-> TRUE, status |-> "raised", tasks |-> <<>>]

\* payload.get("project", {}).get("id") is evaluated when project_id is
\* missing or falsy, and raises when the payload holds "project": null
ProjectIdRaises(p) ==
    /\ ~Truthy(Get(p, "project_id"))
    /\ ~IsObj(GetOr(p, "project", EmptyObj))

\* str(payload.get("project_id") or payload.get("project", {}).get("id") or "")
ProjectIdOf(p) ==
    IF Truthy(Get(p, "project_id")) THEN PyStr(Get(p, "project_id"))
    ELSE IF Truthy(Get(GetOr(p, "project", EmptyObj), "id"))
         THEN PyStr(Get(GetOr(p, "project", EmptyObj), "id"))
         ELSE ""

\* the object_kind == "note" branch
RouteNote(p, project_id) ==
    LET merge_request == Get(p, "merge_request")
        attrs == GetOr(p, "object_attributes", EmptyObj)
    IN  IF ~Truthy(merge_request) THEN Returned("ignored", <<>>)
        ELSE IF ~IsObj(attrs) THEN Raised
        ELSE IF GetOr(attrs, "note", PText(<<>>)).k # "text" THEN Raised
        ELSE LET comment_text == Lower(GetOr(attrs, "note", PText(<<>>)).v)
             IN  IF ~Contains(comment_text, MENTION) THEN Returned("ignored", <<>>)
                 ELSE Returned("queued",
                        << [fn |-> "handle_comment_task",
                            project_id |-> project_id,
                            mr_iid |-> PyStr(Get(merge_request, "iid")),
                            source_branch |-> Get(merge_request, "source_branch"),
                            target_branch |-> GetOr(merge_request, "target_branch", PStr("main")),
                            question |-> Strip(Remove(comment_text, MENTION))] >>)

\* the object_kind == "merge_request" branch
RouteMergeRequest(p, project_id) ==
    LET mr_attributes == GetOr(p, "object_attributes", EmptyObj)
    IN  IF ~IsObj(mr_attributes) THEN Raised
        ELSE LET mr_iid == PyStr(Get(mr_attributes, "iid"))
                 action == Get(mr_attributes, "action")
                 state == Get(mr_attributes, "state")
             IN  IF action = PStr("open")
                 THEN Returned("overview_queued",
                        << [fn |-> "handle_overview_task",
                            project_id |-> project_id,
                            mr_iid |-> mr_iid,
                            source_branch |-> Get(mr_attributes, "source_branch"),
                            target_branch |-> GetOr(mr_attributes, "target_branch", PStr("main")),
                            original_title |-> GetOr(mr_attributes, "title", PStr(""))] >>)
                 ELSE IF \/ state \in {PStr("closed"), PStr("merged")}
                         \/ action \in {PStr("close"), PStr("merge")}
                 THEN Returned("cleanup_queued",
                        << [fn |-> "cleanup_workspace", mr_iid |-> mr_iid] >>)
                 ELSE Returned("ignored", <<>>)

route_webhook(p) ==
    IF ProjectIdRaises(p) THEN Raised
    ELSE IF Get(p, "object_kind") = PStr("note") THEN RouteNote(p, ProjectIdOf(p))
    ELSE IF Get(p, "object_kind") = PStr("merge_request")
         THEN RouteMergeRequest(p, ProjectIdOf(p))
    ELSE Returned("ignored", <<>>)

(* Payloads: every combination of the keys the router reads, each key      *)
(* missing, null or set.                                                   *)

\* the dict with the keys of r that are not marked missing
MISSING == [k |-> "missing"]
Dict(r) == PObj([key \in { x \in DOMAIN r : r[x] # MISSING } |-> r[key]])

CommentTexts ==
    { <<"@", "a", "i", "d", "e", "r", " ", "q">>,
      <<"H", "i", " ", "@", "A", "I", "D", "E", "R", " ", "Q", " ">>,
      <<"h", "i">>,
      <<>> }

NoteAttributes ==
    { Dict([note |-> n]) : n \in {MISSING, NONE} \cup { PText(t) : t \in CommentTexts } }

MergeRequestAttributes ==
    { Dict([iid |-> d.iid, action |-> a, state |-> s, source_branch |-> d.src,
            target_branch |-> d.tgt, title |-> d.title]) :
        a \in {MISSING} \cup { PStr(x) : x \in {"open", "update", "close", "merge"} },
        s \in {MISSING} \cup { PStr(x) : x \in {"opened", "closed", "merged"} },
        d \in { [iid |-> PInt(7), src |-> PStr("feat"), tgt |-> PStr("dev"), title |-> PStr("Add feature")],
                [iid |-> MISSING, src |-> MISSING, tgt |-> MISSING, title |-> MISSING] } }

MergeRequestObjects ==
    { EmptyObj,
      Dict([iid |-> PInt(7), source_branch |-> PStr("feat"), target_branch |-> PStr("dev")]),
      Dict([iid |-> PInt(7), source_branch |-> NONE, target_branch |-> MISSING]) }

Payloads ==
    { Dict([object_kind |-> kind, project_id |-> pid, project |-> proj,
            merge_request |-> mr, object_attributes |-> attrs]) :
        kind \in {MISSING, PStr("note"), PStr("merge_request"), PStr("push")},
        pid \in {MISSING, PInt(5)},
        proj \in {MISSING, NONE, Dict([id |-> PInt(5)])},
        mr \in {MISSING, NONE} \cup MergeRequestObjects,
        attrs \in {MISSING, NONE} \cup NoteAttributes \cup MergeRequestAttributes }

RouteIdle ==
    /\ payload = EmptyObj
    /\ response = ""
    /\ scheduled = <<>>
    /\ route_pc = "idle"

RouteInit ==
    /\ payload \in Payloads
    /\ response = ""
    /\ scheduled = <<>>
    /\ route_pc = "call"

\* one call of route_webhook; add_background_task appends to scheduled
RouteCall ==
    /\ route_pc = "call"
    /\ response' = route_webhook(payload).status
    /\ scheduled' = route_webhook(payload).tasks
    /\ route_pc' = "done"
    /\ UNCHANGED <<payload, chunkVars, parseVars, settings, aiderVars, taskVars>>

---------------------------------------------------------------------------
(* config.py: the settings object.  Every function takes it as an          *)
(* argument.  The application builds a config.Settings; its attributes are *)
(* the fields and properties of the class, and reading any other attribute *)
(* of it raises AttributeError.  A caller may hand in another object that   *)
(* carries more attributes.                                                *)

SettingsFields ==
    { "gitlab_token", "gitlab_host", "project_path", "remote_llm_base_url",
      "remote_llm_api_key", "workspace_base", "aider_model", "aider_timeout",
      "diff_max_chars", "gitlab_api_base", "repo_url_template" }

\* a config.Settings instance with diff_max_chars = L
ConfigSettings(L) == [attrs |-> SettingsFields, diff_max_chars |-> L]

\* an object that carries remote_llm_model besides the fields of Settings
SettingsWithModel(L) ==
    [attrs |-> SettingsFields \cup {"remote_llm_model"}, diff_max_chars |-> L]

---------------------------------------------------------------------------
(* service/common/aider_subprocess.py                                      *)
(*                                                                         *)
(* The output of the subprocess is a sequence of lines.  A line has a      *)
(* class, which says what the filters make of it, and a text:              *)
(*   "plain"  kept by every filter (an empty text is a blank line)         *)
(*   "ansi"   only an ANSI escape sequence: _strip_ansi leaves it blank    *)
(*   "box"    only box-drawing characters: _strip_box_drawing removes it   *)
(*   "meta"   matched by _AIDER_META_LINE: _extract_llm_response drops it  *)
(*   "bar"    holds a progress bar: _extract_llm_response drops it         *)

\* _strip_ansi
StripAnsi(lines) ==
    [i \in 1..Len(lines) |->
        IF lines[i].cls = "ansi" THEN [cls |-> "plain", txt |-> <<>>] ELSE lines[i]]

\* _strip_box_drawing
StripBoxDrawing(lines) ==
    LET Keep(l) == l.cls # "box" IN SelectSeq(lines, Keep)

RECURSIVE SkipNewlines(_)
SkipNewlines(s) == IF s # <<>> /\ Head(s) = NL THEN SkipNewlines(Tail(s)) ELSE s

RECURSIVE CollapseBlank(_)
\* re.sub(r"\n{3,}", "\n\n", s)
CollapseBlank(s) ==
    IF s = <<>> THEN <<>>
    ELSE IF MatchAt(s, 1, <<NL, NL, NL>>) THEN <<NL, NL>> \o CollapseBlank(SkipNewlines(s))
    ELSE <<Head(s)>> \o CollapseBlank(Tail(s))

\* [line.rstrip() for line in lines]
RStripEach(lines) == [i \in 1..Len(lines) |-> RStrip(lines[i])]

\* _extract_llm_response: the text left of the lines
ExtractLlmResponse(lines) ==
    LET Keep(l) == l.cls \notin {"meta", "bar"}
        kept == SelectSeq(lines, Keep)
    IN  CollapseBlank(Strip(JoinLines(RStripEach([i \in 1..Len(kept) |-> kept[i].txt]))))

\* _normalize_markdown, for texts without bullets and headings
NormalizeMarkdown(text) ==
    Strip(CollapseBlank(JoinLines(RStripEach(SplitLines(text)))))

\* the sanitized stdout of line 114
SanitizedStdout(lines) ==
    NormalizeMarkdown(ExtractLlmResponse(StripBoxDrawing(StripAnsi(lines))))

\* the stderr of line 115
SanitizedStderr(lines) ==
    LET l == StripAnsi(lines) IN JoinLines([i \in 1..Len(l) |-> l[i].txt])

\* one alternative of _CONNECTION_ERROR_PATTERNS, lower-cased for re.IGNORECASE
SIGNATURE == <<"l", "i", "t", "e", "l", "l", "m", ".">>

\* _CONNECTION_ERROR_PATTERNS.search(text)
MatchesSignature(text) == Contains(Lower(text), SIGNATURE)

AiderNone == [kind |-> "none", text |-> <<>>]
AiderRaised == [kind |-> "raised", text |-> <<>>]
AiderText(t) == [kind |-> "text", text |-> t]

\* the attributes of settings read before the try block (lines 87, 88, 92)
AttrsReadBeforeTry == {"remote_llm_base_url", "remote_llm_api_key", "remote_llm_model"}

\* the try block (lines 105-132): classification of what subprocess.run did
ClassifyOutcome(pr) ==
    IF pr.kind = "timeout" THEN AiderNone
    ELSE IF pr.kind = "oserror" THEN AiderNone
    ELSE IF \/ MatchesSignature(SanitizedStdout(pr.stdout))
            \/ MatchesSignature(SanitizedStderr(pr.stderr))
         THEN AiderNone
    ELSE IF pr.returncode # 0 THEN AiderNone
    ELSE IF SanitizedStdout(pr.stdout) = <<>> THEN AiderNone
    ELSE AiderText(SanitizedStdout(pr.stdout))

\* _run_aider_subprocess: the command line is built outside the try block,
\* so a settings object without one of the attributes read there makes the
\* call raise AttributeError
run_aider_subprocess(s, pr) ==
    IF ~(AttrsReadBeforeTry \subseteq s.attrs) THEN AiderRaised
    ELSE ClassifyOutcome(pr)

(* Outcomes of subprocess.run: it timed out, it could not start the        *)
(* process (no executable, no working directory), or the process exited.   *)

MaxOutLines == 3

PlainLine(t) == [cls |-> "plain", txt |-> t]
SignatureLine == <<"L", "i", "t", "e", "L", "L", "M", ".", " ", "x">>

StdoutLines ==
    { PlainLine(<<"o", "k">>), PlainLine(<<>>), PlainLine(SignatureLine),
      [cls |-> "meta", txt |-> SignatureLine],
      [cls |-> "box", txt |-> <<>>],
      [cls |-> "bar", txt |-> <<>>],
      [cls |-> "ansi", txt |-> <<>>] }

RECURSIVE OutputsUpTo(_)
OutputsUpTo(n) ==
    IF n = 0 THEN { <<>> }
    ELSE LET shorter == OutputsUpTo(n - 1)
         IN  shorter \cup { Append(o, l) : o \in { t \in shorter : Len(t) = n - 1 }, l \in StdoutLines }

StderrTexts ==
    { <<>>, <<PlainLine(<<"w">>)>>, <<PlainLine(SignatureLine)>>, <<[cls |-> "ansi", txt |-> <<>>]>> }

TimedOut == [kind |-> "timeout", returncode |-> 0, stdout |-> <<>>, stderr |-> <<>>]
CouldNotStart == [kind |-> "oserror", returncode |-> 0, stdout |-> <<>>, stderr |-> <<>>]
Exited(rc, out, err) == [kind |-> "exit", returncode |-> rc, stdout |-> out, stderr |-> err]

ProcOutcomes ==
    {TimedOut, CouldNotStart}
        \cup { Exited(rc, out, err) :
                 rc \in {0, 1}, out \in OutputsUpTo(MaxOutLines), err \in StderrTexts }

AiderIdle ==
    /\ proc = TimedOut
    /\ aider_ret = AiderNone
    /\ aider_pc = "idle"

AiderInit ==
    /\ proc \in ProcOutcomes
    /\ aider_ret = AiderNone
    /\ aider_pc = "call"

\* one call of _run_aider_subprocess
AiderCall ==
    /\ aider_pc = "call"
    /\ aider_ret' = run_aider_subprocess(settings, proc)
    /\ aider_pc' = "done"
    /\ UNCHANGED <<proc, settings, chunkVars, parseVars, routeVars, taskVars>>

---------------------------------------------------------------------------
(* workspace_manager.py and the file system                                *)

\* get_workspace_path: <workspace_base>/<project_name>_mr_<mr_iid>
get_workspace_path(mr_iid) == <<"workspace_base", "project_name", "_mr_", mr_iid>>

\* what a workspace path holds: nothing, a directory without a checkout,
\* or a checkout (a directory with .git) of a branch
Absent == [dir |-> FALSE, git |-> FALSE, branch |-> NONE]
EmptyDir == [dir |-> TRUE, git |-> FALSE, branch |-> NONE]
Checkout(b) == [dir |-> TRUE, git |-> TRUE, branch |-> b]

---------------------------------------------------------------------------
(* git_service.py and workspace_manager.py on one workspace path: the      *)
(* statements that touch the path, what each of them did, and what the     *)
(* path holds afterwards.  A statement is a subprocess.run of git, whose   *)
(* outcome is Exited(rc, stdout, <<>>) or CouldNotStart (OSError: no such  *)
(* directory, no git), or a call of shutil.rmtree or os.makedirs, whose    *)
(* outcome is PyReturned or PyRaised.                                      *)

PyReturned == [kind |-> "returned", returncode |-> 0, stdout |-> <<>>, stderr |-> <<>>]
PyRaised == [kind |-> "oserror", returncode |-> 0, stdout |-> <<>>, stderr |-> <<>>]

Ran(cmd, outcome) == [cmd |-> cmd, outcome |-> outcome]

\* the statement did not raise: a Python call returned, a subprocess.run
\* with check=True ran a command that exited with 0
Passes(outcome) ==
    \/ outcome.kind = "returned"
    \/ outcome.kind = "exit" /\ outcome.returncode = 0

AllPass(ran) == \A i \in 1..Len(ran) : Passes(ran[i].outcome)

\* every statement ran and none raised
Completes(cmds, ran) == Len(ran) = Len(cmds) /\ AllPass(ran)

\* statements that all run, whatever the earlier ones did
RunAll(cmds, outcomes) == [i \in 1..Len(cmds) |-> Ran(cmds[i], outcomes[i])]

\* statements inside one try block, one after the other: the first that
\* raises is the last that runs (sync_repository lines 47-73)
RECURSIVE RunUntilRaise(_, _)
RunUntilRaise(cmds, outcomes) ==
    IF cmds = <<>> THEN <<>>
    ELSE IF ~Passes(outcomes[1]) THEN <<Ran(cmds[1], outcomes[1])>>
    ELSE <<Ran(cmds[1], outcomes[1])>> \o RunUntilRaise(Tail(cmds), Tail(outcomes))

\* sync_repository lines 48-73: the statements of the branch taken
UpdateStatements == <<"git fetch", "git checkout", "git pull">>
PrepareStatements(state) == IF state.dir THEN <<"rmtree", "makedirs">> ELSE <<"makedirs">>
CloneStatements == <<"git clone">>
SyncStatements(state) ==
    IF state.git THEN UpdateStatements ELSE PrepareStatements(state) \o CloneStatements

\* what the path holds after one statement
StateAfter(state, branch, ran) ==
    IF ~Passes(ran.outcome) THEN state
    ELSE CASE ran.cmd = "rmtree" -> Absent
           [] ran.cmd = "makedirs" -> IF state.dir THEN state ELSE EmptyDir
           [] ran.cmd \in {"git clone", "git checkout"} -> Checkout(branch)
           [] OTHER -> state

RECURSIVE StateAfterAll(_, _, _)
StateAfterAll(state, branch, ran) ==
    IF ran = <<>> THEN state
    ELSE StateAfterAll(StateAfter(state, branch, ran[1]), branch, Tail(ran))

\* sync_repository: True at line 74 when no statement raised, False from
\* both except branches (lines 75-81)
sync_repository(state, source_branch, outcomes) ==
    LET ran == RunUntilRaise(SyncStatements(state), outcomes)
    IN  [ran |-> ran,
         ret |-> Completes(SyncStatements(state), ran),
         state |-> StateAfterAll(state, source_branch, ran)]

\* what extract_diff returns: None or DiffResult(content)
NoDiff == [kind |-> "none", content |-> <<>>]
DiffResult(c) == [kind |-> "diff", content |-> c]

\* git diff prints bytes; a byte that is not valid in the locale's encoding
INVALID_BYTE == "0xE9"

\* subprocess.run(..., text=True) decodes stdout strictly: the text, unless
\* a byte is invalid, which raises UnicodeDecodeError
Decodes(bytes) == \A i \in 1..Len(bytes) : bytes[i] # INVALID_BYTE

\* extract_diff lines 88-97: the fetch runs with check=True, the diff
\* without; every exception ends in None (lines 98-104)
ExtractStatements(fetch, diff) ==
    IF Passes(fetch) THEN <<Ran("git fetch", fetch), Ran("git diff", diff)>>
    ELSE <<Ran("git fetch", fetch)>>

extract_diff(fetch, diff) ==
    [ran |-> ExtractStatements(fetch, diff),
     ret |-> IF ~Passes(fetch) THEN NoDiff
             ELSE IF diff.kind # "exit" \/ ~Decodes(diff.stdout) THEN NoDiff
             ELSE DiffResult(diff.stdout)]

\* cleanup_workspace lines 28-32 with an except branch that lets the error go
AfterRmtreeUncaught(outcome) == IF Passes(outcome) THEN "returned" ELSE "raised"

\* cleanup_workspace lines 28-32: an exception of rmtree is logged, the
\* function returns either way
AfterRmtree(outcome) == "returned"

\* cleanup_workspace: rmtree of a path that exists, nothing on one that
\* does not
cleanup_workspace(state, outcome) ==
    IF state.dir
    THEN [ran |-> <<Ran("rmtree", outcome)>>,
          ret |-> AfterRmtree(outcome),
          state |-> StateAfter(state, NONE, Ran("rmtree", outcome))]
    ELSE [ran |-> <<>>, ret |-> "returned", state |-> state]

(* What the file system and git allow.  A git command can exit with 0 only *)
(* where it has what it works on: a checkout, or for git clone a directory *)
(* without one; in a directory that does not exist it cannot start.        *)
(* rmtree can return only on a path that exists.  Every statement can      *)
(* fail.                                                                   *)
GitOutcomes == { Exited(0, <<>>, <<>>), Exited(128, <<>>, <<>>), CouldNotStart }
PyOutcomes == { PyReturned, PyRaised }
PyStatements == {"rmtree", "makedirs"}

OutcomeSeqs(cmds) ==
    { o \in [1..Len(cmds) -> GitOutcomes \cup PyOutcomes] :
        \A i \in 1..Len(cmds) :
            o[i] \in (IF cmds[i] \in PyStatements THEN PyOutcomes ELSE GitOutcomes) }

CanPass(cmd, state) ==
    CASE cmd = "makedirs" -> TRUE
      [] cmd = "rmtree" -> state.dir
      [] cmd = "git clone" -> state.dir /\ ~state.git
      [] OTHER -> state.git

Feasible(state, ran) ==
    /\ (ran.outcome.kind \in {"returned", "exit"} /\ ran.outcome.returncode = 0)
          => CanPass(ran.cmd, state)
    /\ (ran.cmd \notin PyStatements /\ ~state.dir) => ran.outcome = CouldNotStart

RECURSIVE FeasibleRun(_, _, _)
FeasibleRun(state, branch, ran) ==
    IF ran = <<>> THEN TRUE
    ELSE /\ Feasible(state, ran[1])
         /\ FeasibleRun(StateAfter(state, branch, ran[1]), branch, Tail(ran))

---------------------------------------------------------------------------
(* The prompts, kept as what they embed                                    *)

\* service/review_service.py: _build_overview_prompt
build_overview_prompt(diff_result, original_title) ==
    [kind |-> "overview", diff |-> diff_result.content, original_title |-> original_title]

\* service/review_service.py: _build_chunk_analysis_prompt
build_chunk_analysis_prompt(chunk, idx, total) ==
    [kind |-> "chunk", chunk |-> chunk, idx |-> idx, total |-> total]

\* service/review_service.py: _build_aggregate_prompt
build_aggregate_prompt(partial_analyses, original_title) ==
    [kind |-> "aggregate",
     analyses |-> [i \in 1..Len(partial_analyses) |->
                      [label |-> i, text |-> partial_analyses[i]]],
     original_title |-> original_title]

DEFAULT_QUESTION == <<"r", "e", "v", "i", "e", "w">>

\* service/comment_service.py: _build_user_ask_prompt
build_user_ask_prompt(question) ==
    [kind |-> "ask", question |-> IF question # <<>> THEN question ELSE DEFAULT_QUESTION]

---------------------------------------------------------------------------
(* Background tasks: webhook_handler.py, git_service.py,                   *)
(* service/review_service.py, service/comment_service.py, gitlab_client.py *)
(*                                                                         *)
(* A task is the call the router scheduled (its function and arguments),   *)
(* its position (pc), its locals, the stages it has finished with their    *)
(* outcome (trace), the path run_aider_overview took and the assistant     *)
(* invocations it has made.                                                *)

NoResult == [kind |-> "none"]
OverviewResult(pair) == [kind |-> "pair", title |-> pair.title, description |-> pair.description]

\* a task that add_background_task would run at once, up to its first stage
NewTaskRunning(call) ==
    [call |-> call, pc |-> "sync_repository", trace |-> <<>>, diff |-> NoDiff,
     chunks |-> <<>>, path |-> "none", idx |-> 0, partial_analyses |-> <<>>,
     invocations |-> <<>>, result |-> NoResult]

NewTask(call) ==
    [call |-> call, pc |-> "start", trace |-> <<>>, diff |-> NoDiff, chunks |-> <<>>,
     path |-> "none", idx |-> 0, partial_analyses |-> <<>>, invocations |-> <<>>,
     result |-> NoResult]

Done(stage, outcome) == [stage |-> stage, outcome |-> outcome]

PathOf(t) == get_workspace_path(tasks[t].call.mr_iid)

\* a handler that goes on to the next stage whatever the stage reported
AfterStageAlways(ok, next) == next

\* the handlers' test after a stage (if not ok: return; if ... is None:
\* return): the position after a stage that succeeded or failed
AfterStage(ok, next) == IF ok THEN next ELSE "returned"

\* a run_aider_overview that takes the map/reduce path on every diff
UsesSinglePathNever(chs) == FALSE

\* the test of review_service.py line 132
UsesSinglePath(chs) == Len(chs) = 1

\* gitlab_client.change_mr_overview takes no parameter (line 7); the call of
\* webhook_handler.py line 92 passes five arguments
ChangeMrOverviewParams == 0
ChangeMrOverviewArgs == 5

(* What the assistant subprocess does when a task invokes it: it fails in  *)
(* one of four ways or it answers.  The overview and the aggregate prompt  *)
(* ask for a "TITLE:" line, which the answer has or has not; the answers   *)
(* to the other prompts are plain text.  subprocess.run cannot start it in *)
(* a directory that does not exist.                                        *)
TitledAnswer ==
    << PlainLine(<<"T", "I", "T", "L", "E", ":", " ", "a">>),
       PlainLine(<<"-", "-", "-">>), PlainLine(<<"b">>) >>

UntitledAnswer == << PlainLine(<<"b">>) >>

AssistantProcs(prompt) ==
    { TimedOut, CouldNotStart,
      Exited(1, <<>>, <<PlainLine(<<"w">>)>>),
      Exited(0, <<PlainLine(SignatureLine)>>, <<>>),
      Exited(0, UntitledAnswer, <<>>) }
        \cup (IF prompt.kind \in {"overview", "aggregate"}
              THEN { Exited(0, TitledAnswer, <<>>) } ELSE {})

ProcsAt(path, prompt) == IF fs[path].dir THEN AssistantProcs(prompt) ELSE {CouldNotStart}

Invocation(prompt, ret) == [prompt |-> prompt, ret |-> ret]

SetTask(t, r) == tasks' = [tasks EXCEPT ![t] = r]

others == <<settings, chunkVars, parseVars, routeVars, aiderVars, history, log>>

MaxEvents == 2

\* the webhooks of one merge request: a mention, an open, a close, an open
\* without branches, and a push
MergeRequest7 ==
    [iid |-> PInt(7), source_branch |-> PStr("feat"), target_branch |-> PStr("dev")]

MergeRequestEvent(attrs) ==
    Dict([object_kind |-> PStr("merge_request"), project_id |-> PInt(5),
          object_attributes |-> Dict(attrs)])

PipelinePayloads ==
    { Dict([object_kind |-> PStr("note"), project_id |-> PInt(5),
            merge_request |-> Dict(MergeRequest7),
            object_attributes |-> Dict([note |-> PText(<<"@", "a", "i", "d", "e", "r", " ", "q">>)])]),
      MergeRequestEvent([iid |-> PInt(7), action |-> PStr("open"), state |-> PStr("opened"),
                         source_branch |-> PStr("feat"), target_branch |-> PStr("dev"),
                         title |-> PStr("Add feature")]),
      MergeRequestEvent([iid |-> PInt(7), action |-> PStr("close"), state |-> PStr("closed")]),
      MergeRequestEvent([iid |-> PInt(7), action |-> PStr("open"), state |-> PStr("opened")]),
      Dict([object_kind |-> PStr("push"), project_id |-> PInt(5)]) }

WorkspacePaths == { get_workspace_path("7") }

\* what git diff prints: nothing, one file section, two file sections
PipelineDiffs == { <<>>, FragHeader, FragHeader \o <<NL>> \o FragHeader }

\* what the git diff command does: it prints a diff, or a diff with a byte
\* that does not decode, and exits with 0; it fails with nothing printed;
\* it cannot start
DiffOutcomes ==
    { Exited(0, c, <<>>) : c \in PipelineDiffs \cup { <<INVALID_BYTE>> } }
        \cup { Exited(128, <<>>, <<>>), CouldNotStart }

\* route_webhook answers a webhook; add_background_task schedules its task
Webhook ==
    /\ Len(events) < MaxEvents
    /\ \E p \in PipelinePayloads :
         /\ events' = Append(events, route_webhook(p).status)
         /\ tasks' = tasks \o [i \in 1..Len(route_webhook(p).tasks) |->
                                  NewTask(route_webhook(p).tasks[i])]
    /\ UNCHANGED <<fs, calls, others>>

\* a handler that leaves the sync out and starts with the diff
FirstStageWithoutSync(fn, checkout) ==
    IF fn = "handle_comment_task" THEN "run_aider_comment" ELSE "extract_diff"

\* the first stage of a handler: handle_comment_task leaves the sync out on
\* a path that holds a checkout (lines 38-45), handle_overview_task always
\* starts with it (line 76)
FirstStage(fn, checkout) ==
    IF fn = "handle_comment_task" /\ checkout THEN "run_aider_comment" ELSE "sync_repository"

\* a handler that goes on without a source branch or a project id
MissingInputIgnored(call) == FALSE

\* the handlers' first test: if not source_branch or not project_id
\* (handle_comment_task line 31, handle_overview_task line 68)
MissingInput(call) == ~Truthy(call.source_branch) \/ call.project_id = ""

\* handle_comment_task lines 28-45, handle_overview_task lines 65-73
HandlerStart(t) ==
    /\ tasks[t].pc = "start"
    /\ tasks[t].call.fn \in {"handle_comment_task", "handle_overview_task"}
    /\ SetTask(t, [tasks[t] EXCEPT !.pc =
          IF MissingInput(tasks[t].call)
          THEN "returned"
          ELSE FirstStage(tasks[t].call.fn, fs[PathOf(t)].git)])
    /\ UNCHANGED <<events, fs, calls, others>>

\* sync_repository returns ok to its handler
SyncReturn(t, ok) ==
    SetTask(t, [tasks[t] EXCEPT
        !.pc = AfterStage(ok, IF tasks[t].call.fn = "handle_comment_task"
                              THEN "run_aider_comment" ELSE "extract_diff"),
        !.trace = Append(@, Done("sync", IF ok THEN "ok" ELSE "failed"))])

\* sync_repository lines 48 and 65-67: the test for .git and, without a
\* checkout, rmtree of what is there and makedirs; either can raise, which
\* ends the call with False
SyncStart(t) ==
    /\ tasks[t].pc = "sync_repository"
    /\ IF fs[PathOf(t)].git
       THEN /\ SetTask(t, [tasks[t] EXCEPT !.pc = "git_update"])
            /\ fs' = fs
       ELSE \E outcomes \in OutcomeSeqs(PrepareStatements(fs[PathOf(t)])) :
              LET cmds == PrepareStatements(fs[PathOf(t)])
                  ran == RunUntilRaise(cmds, outcomes)
              IN  /\ FeasibleRun(fs[PathOf(t)], tasks[t].call.source_branch, ran)
                  /\ fs' = [fs EXCEPT ![PathOf(t)] =
                               StateAfterAll(@, tasks[t].call.source_branch, ran)]
                  /\ IF Completes(cmds, ran)
                     THEN SetTask(t, [tasks[t] EXCEPT !.pc = "git_clone"])
                     ELSE SyncReturn(t, FALSE)
    /\ UNCHANGED <<events, calls, others>>

\* the git commands of sync_repository, on what the path holds now
SyncGit(t, cmds) ==
    \E outcomes \in OutcomeSeqs(cmds) :
        LET ran == RunUntilRaise(cmds, outcomes)
        IN  /\ FeasibleRun(fs[PathOf(t)], tasks[t].call.source_branch, ran)
            /\ fs' = [fs EXCEPT ![PathOf(t)] =
                         StateAfterAll(@, tasks[t].call.source_branch, ran)]
            /\ SyncReturn(t, Completes(cmds, ran))

\* sync_repository lines 51-62: git fetch, checkout, pull
SyncUpdate(t) ==
    /\ tasks[t].pc = "git_update"
    /\ SyncGit(t, UpdateStatements)
    /\ UNCHANGED <<events, calls, others>>

\* sync_repository lines 70-73: git clone into the directory
SyncClone(t) ==
    /\ tasks[t].pc = "git_clone"
    /\ SyncGit(t, CloneStatements)
    /\ UNCHANGED <<events, calls, others>>

\* extract_diff: the fetch of the target branch, then the diff command
ExtractDiff(t) ==
    /\ tasks[t].pc = "extract_diff"
    /\ \E fetch \in GitOutcomes, diff \in DiffOutcomes :
         LET r == extract_diff(fetch, diff)
         IN  /\ FeasibleRun(fs[PathOf(t)], tasks[t].call.source_branch, r.ran)
             /\ SetTask(t, [tasks[t] EXCEPT
                   !.diff = r.ret,
                   !.pc = AfterStage(r.ret.kind = "diff", "run_aider_overview"),
                   !.trace = Append(@, Done("diff", IF r.ret.kind = "diff"
                                                    THEN "ok" ELSE "failed"))])
    /\ UNCHANGED <<events, fs, calls, others>>

\* run_aider_overview lines 129-132: chunk the diff and choose the path
OverviewSplit(t) ==
    /\ tasks[t].pc = "run_aider_overview"
    /\ LET chs == split_diff_into_chunks(tasks[t].diff.content, settings.diff_max_chars)
       IN  SetTask(t, [tasks[t] EXCEPT
               !.chunks = chs,
               !.idx = 1,
               !.path = IF UsesSinglePath(chs) THEN "single" ELSE "map_reduce",
               !.pc = IF UsesSinglePath(chs) THEN "single" ELSE "map"])
    /\ UNCHANGED <<events, fs, calls, others>>

\* the last invocation of run_aider_overview gave ret: the AttributeError
\* leaves the task, None is the failure of the stage, a text is parsed and
\* returned to handle_overview_task (lines 136-138, 159-161, 87-89)
OverviewEnd(r, ret) ==
    IF ret.kind = "raised"
    THEN [r EXCEPT !.pc = "raised", !.trace = Append(@, Done("assistant", "raised"))]
    ELSE IF ret.kind = "none"
    THEN [r EXCEPT !.pc = AfterStage(FALSE, "publish"),
                   !.trace = Append(@, Done("assistant", "failed"))]
    ELSE [r EXCEPT !.pc = AfterStage(TRUE, "publish"),
                   !.result = OverviewResult(parse_overview_output(ret.text)),
                   !.trace = @ \o <<Done("assistant", "ok"), Done("parse", "ok")>>]

Invoked(r, prompt, ret) == [r EXCEPT !.invocations = Append(@, Invocation(prompt, ret))]

\* run_aider_overview lines 134-138: one invocation on the whole diff
OverviewSingle(t) ==
    /\ tasks[t].pc = "single"
    /\ \E pr \in ProcsAt(PathOf(t), build_overview_prompt(tasks[t].diff,
                                                          tasks[t].call.original_title)) :
         SetTask(t, OverviewEnd(
            Invoked(tasks[t],
                    build_overview_prompt(tasks[t].diff, tasks[t].call.original_title),
                    run_aider_subprocess(settings, pr)),
            run_aider_subprocess(settings, pr)))
    /\ UNCHANGED <<events, fs, calls, others>>

\* run_aider_overview lines 142-149: one iteration of the map loop
MapChunk(r, ret) ==
    IF ret.kind = "raised"
    THEN [r EXCEPT !.pc = "raised", !.trace = Append(@, Done("assistant", "raised"))]
    ELSE [r EXCEPT !.idx = @ + 1,
                   !.partial_analyses =
                       IF ret.kind = "text" /\ ret.text # <<>> THEN Append(@, ret.text) ELSE @]

OverviewMapChunk(t) ==
    /\ tasks[t].pc = "map"
    /\ tasks[t].idx <= Len(tasks[t].chunks)
    /\ \E pr \in ProcsAt(PathOf(t),
                         build_chunk_analysis_prompt(tasks[t].chunks[tasks[t].idx],
                                                     tasks[t].idx, Len(tasks[t].chunks))) :
         SetTask(t, MapChunk(
            Invoked(tasks[t],
                    build_chunk_analysis_prompt(tasks[t].chunks[tasks[t].idx],
                                                tasks[t].idx, Len(tasks[t].chunks)),
                    run_aider_subprocess(settings, pr)),
            run_aider_subprocess(settings, pr)))
    /\ UNCHANGED <<events, fs, calls, others>>

\* run_aider_overview lines 151-161: after the loop, None without any
\* partial analysis, else the aggregation invocation
OverviewReduce(t) ==
    /\ tasks[t].pc = "map"
    /\ tasks[t].idx > Len(tasks[t].chunks)
    /\ IF tasks[t].partial_analyses = <<>>
       THEN SetTask(t, [tasks[t] EXCEPT
               !.pc = AfterStage(FALSE, "publish"),
               !.trace = Append(@, Done("assistant", "failed"))])
       ELSE \E pr \in ProcsAt(PathOf(t),
                               build_aggregate_prompt(tasks[t].partial_analyses,
                                                      tasks[t].call.original_title)) :
               SetTask(t, OverviewEnd(
                  Invoked(tasks[t],
                          build_aggregate_prompt(tasks[t].partial_analyses,
                                                 tasks[t].call.original_title),
                          run_aider_subprocess(settings, pr)),
                  run_aider_subprocess(settings, pr)))
    /\ UNCHANGED <<events, fs, calls, others>>

\* handle_overview_task line 92: the call of change_mr_overview; a call
\* whose arguments do not fit the parameters raises TypeError
Publish(t) ==
    /\ tasks[t].pc = "publish"
    /\ IF ChangeMrOverviewArgs = ChangeMrOverviewParams
       THEN /\ calls' = Append(calls, [api |-> "update_mr", task |-> t,
                                       project_id |-> tasks[t].call.project_id,
                                       mr_iid |-> tasks[t].call.mr_iid,
                                       title |-> tasks[t].result.title,
                                       description |-> tasks[t].result.description])
            /\ SetTask(t, [tasks[t] EXCEPT !.pc = "returned",
                                           !.trace = Append(@, Done("publish", "ok"))])
       ELSE /\ calls' = calls
            /\ SetTask(t, [tasks[t] EXCEPT !.pc = "raised",
                                           !.trace = Append(@, Done("publish", "raised"))])
    /\ UNCHANGED <<events, fs, others>>

\* run_aider_comment, and handle_comment_task lines 48-50
CommentEnd(r, ret) ==
    IF ret.kind = "raised"
    THEN [r EXCEPT !.pc = "raised", !.trace = Append(@, Done("assistant", "raised"))]
    ELSE [r EXCEPT !.pc = AfterStage(ret.kind # "none", "post_mr_comment"),
                   !.result = ret,
                   !.trace = Append(@, Done("assistant",
                                            IF ret.kind = "none" THEN "failed" ELSE "ok"))]

CommentAsk(t) ==
    /\ tasks[t].pc = "run_aider_comment"
    /\ \E pr \in ProcsAt(PathOf(t), build_user_ask_prompt(tasks[t].call.question)) :
         SetTask(t, CommentEnd(
            Invoked(tasks[t], build_user_ask_prompt(tasks[t].call.question),
                    run_aider_subprocess(settings, pr)),
            run_aider_subprocess(settings, pr)))
    /\ UNCHANGED <<events, fs, calls, others>>

\* post_mr_comment: the POST of the note; a request that fails is logged
\* and swallowed
PostComment(t) ==
    /\ tasks[t].pc = "post_mr_comment"
    /\ calls' = IF tasks[t].call.project_id \in {"", "None"} THEN calls
                ELSE Append(calls, [api |-> "create_note", task |-> t,
                                    project_id |-> tasks[t].call.project_id,
                                    mr_iid |-> tasks[t].call.mr_iid,
                                    message |-> tasks[t].result.text])
    /\ SetTask(t, [tasks[t] EXCEPT !.pc = "returned",
                                   !.trace = Append(@, Done("publish", "ok"))])
    /\ UNCHANGED <<events, fs, others>>

\* the cleanup task: cleanup_workspace on the path of the merge request
Cleanup(t) ==
    /\ tasks[t].pc = "start"
    /\ tasks[t].call.fn = "cleanup_workspace"
    /\ \E outcome \in PyOutcomes :
         LET r == cleanup_workspace(fs[PathOf(t)], outcome)
         IN  /\ FeasibleRun(fs[PathOf(t)], NONE, r.ran)
             /\ fs' = [fs EXCEPT ![PathOf(t)] = r.state]
             /\ SetTask(t, [tasks[t] EXCEPT !.pc = r.ret])
    /\ UNCHANGED <<events, calls, others>>

TaskIdle ==
    /\ events = <<>>
    /\ tasks = <<>>
    /\ fs = [p \in WorkspacePaths |-> Absent]
    /\ calls = <<>>
    /\ history = <<>>
    /\ log = <<>>

\* the server has started: no webhook yet, no workspace
TaskInit ==
    /\ events = <<>>
    /\ tasks = <<>>
    /\ fs = [p \in WorkspacePaths |-> Absent]
    /\ calls = <<>>
    /\ history = <<>>
    /\ log = <<>>
    /\ settings \in { ConfigSettings(Len(FragHeader)), SettingsWithModel(Len(FragHeader)) }

\* one call of run_aider_overview on a synced workspace
OverviewCall(c) ==
    [NewTask([fn |-> "handle_overview_task", project_id |-> "5", mr_iid |-> "7",
              source_branch |-> PStr("feat"), target_branch |-> PStr("dev"),
              original_title |-> PStr("Add feature")])
       EXCEPT !.pc = "run_aider_overview",
              !.diff = DiffResult(c),
              !.trace = <<Done("sync", "ok"), Done("diff", "ok")>>]

OverviewInit ==
    /\ events = <<>>
    /\ \E c \in DiffTexts : tasks = <<OverviewCall(c)>>
    /\ fs = [p \in WorkspacePaths |-> Checkout(PStr("feat"))]
    /\ calls = <<>>
    /\ history = <<>>
    /\ log = <<>>
    /\ \E L \in 1..MaxChars : settings \in { ConfigSettings(L), SettingsWithModel(L) }

\* calls of sync_repository, extract_diff and cleanup_workspace on one
\* workspace path, one after the other, each recorded with what the path
\* held before, the branch handed in, the statements that ran, the value returned ("raised" if
\* the call raised) and what the path holds afterwards
MaxCalls == 3

Branches == { PStr("feat"), PStr("fix") }

ThePath == get_workspace_path("7")

Called(fn, branch, found, r) ==
    [fn |-> fn, branch |-> branch, found |-> found, ran |-> r.ran, ret |-> r.ret,
     left |-> r.state]

Record(fn, branch, r) ==
    /\ FeasibleRun(fs[ThePath], branch, r.ran)
    /\ history' = Append(history, Called(fn, branch, fs[ThePath], r))
    /\ fs' = [fs EXCEPT ![ThePath] = r.state]

workspaceOthers == <<events, tasks, calls, settings, chunkVars, parseVars, routeVars, aiderVars>>

workspaceRest == <<workspaceOthers, log>>

SyncRepositoryCall ==
    /\ Len(history) < MaxCalls
    /\ \E b \in Branches : \E outcomes \in OutcomeSeqs(SyncStatements(fs[ThePath])) :
         Record("sync_repository", b, sync_repository(fs[ThePath], b, outcomes))
    /\ UNCHANGED workspaceRest

ExtractDiffCall ==
    /\ Len(history) < MaxCalls
    /\ \E fetch \in GitOutcomes, diff \in DiffOutcomes :
         Record("extract_diff", NONE,
                [ran |-> extract_diff(fetch, diff).ran,
                 ret |-> extract_diff(fetch, diff).ret,
                 state |-> fs[ThePath]])
    /\ UNCHANGED workspaceRest

CleanupWorkspaceCall ==
    /\ Len(history) < MaxCalls
    /\ \E outcome \in PyOutcomes :
         Record("cleanup_workspace", NONE, cleanup_workspace(fs[ThePath], outcome))
    /\ UNCHANGED workspaceRest

(* Webhooks that lack the project id or the source branch, for a merge    *)
(* request whose workspace exists: a mention without a project id, a       *)
(* mention whose merge request has no source branch, an open without a     *)
(* project id, an open without branches, an open with an empty source      *)
(* branch, and a close without a project id.                               *)
IncompletePayloads ==
    { Dict([object_kind |-> PStr("note"),
            merge_request |-> Dict(MergeRequest7),
            object_attributes |-> Dict([note |-> PText(<<"@", "a", "i", "d", "e", "r", " ", "q">>)])]),
      Dict([object_kind |-> PStr("note"), project_id |-> PInt(5),
            merge_request |-> Dict([iid |-> PInt(7), target_branch |-> PStr("dev")]),
            object_attributes |-> Dict([note |-> PText(<<"@", "a", "i", "d", "e", "r", " ", "q">>)])]),
      Dict([object_kind |-> PStr("merge_request"),
            object_attributes |-> Dict([iid |-> PInt(7), action |-> PStr("open"),
                                        state |-> PStr("opened"),
                                        source_branch |-> PStr("feat"),
                                        target_branch |-> PStr("dev"),
                                        title |-> PStr("Add feature")])]),
      MergeRequestEvent([iid |-> PInt(7), action |-> PStr("open"), state |-> PStr("opened")]),
      MergeRequestEvent([iid |-> PInt(7), action |-> PStr("open"), state |-> PStr("opened"),
                         source_branch |-> PStr(""), target_branch |-> PStr("dev")]),
      Dict([object_kind |-> PStr("merge_request"),
            object_attributes |-> Dict([iid |-> PInt(7), action |-> PStr("close"),
                                        state |-> PStr("closed")])]) }

WebhookIncomplete ==
    /\ Len(events) < MaxEvents
    /\ \E p \in IncompletePayloads :
         /\ events' = Append(events, route_webhook(p).status)
         /\ tasks' = tasks \o [i \in 1..Len(route_webhook(p).tasks) |->
                                  NewTask(route_webhook(p).tasks[i])]
    /\ UNCHANGED <<fs, calls, others>>

\* no webhook yet; the workspace of the merge request exists
IncompleteInit ==
    /\ events = <<>>
    /\ tasks = <<>>
    /\ calls = <<>>
    /\ history = <<>>
    /\ log = <<>>
    /\ fs \in [WorkspacePaths -> {EmptyDir, Checkout(PStr("feat"))}]
    /\ settings \in { ConfigSettings(Len(FragHeader)), SettingsWithModel(Len(FragHeader)) }

\* handle_comment_task lines 38-48 on the path, from its test for .git to
\* the call of run_aider_comment: the sync when FirstStage says so, and the
\* assistant unless the sync returned False
handle_comment_task(state, source_branch, outcomes) ==
    IF FirstStage("handle_comment_task", state.git) = "sync_repository"
    THEN [ran |-> sync_repository(state, source_branch, outcomes).ran,
          ret |-> AfterStage(sync_repository(state, source_branch, outcomes).ret,
                             "run_aider_comment"),
          state |-> sync_repository(state, source_branch, outcomes).state]
    ELSE [ran |-> <<>>, ret |-> "run_aider_comment", state |-> state]

HandleCommentTaskCall ==
    /\ Len(history) < MaxCalls
    /\ \E b \in Branches : \E outcomes \in OutcomeSeqs(SyncStatements(fs[ThePath])) :
         Record("handle_comment_task", b, handle_comment_task(fs[ThePath], b, outcomes))
    /\ UNCHANGED workspaceRest

\* the path holds nothing, a directory without a checkout, or a checkout
WorkspaceInit ==
    /\ events = <<>>
    /\ tasks = <<>>
    /\ calls = <<>>
    /\ history = <<>>
    /\ log = <<>>
    /\ fs \in [WorkspacePaths -> {Absent, EmptyDir} \cup { Checkout(b) : b \in Branches }]

---------------------------------------------------------------------------
(* The workspaces of several merge requests.  mr_iid is str() of whatever  *)
(* the payload holds as iid, so it is a text; here it is kept in pieces,   *)
(* and the path is resolved to a directory as the file system does it.     *)

SEP == "/"

\* os.path.join(workspace_base, f"{project_name}_mr_{mr_iid}") as a text
PathText(mr_iid) ==
    << get_workspace_path(mr_iid)[1], SEP,
       get_workspace_path(mr_iid)[2], get_workspace_path(mr_iid)[3] >>
        \o get_workspace_path(mr_iid)[4]

RECURSIVE Components(_)
\* the text between the separators
Components(text) ==
    IF \E i \in 1..Len(text) : text[i] = SEP
    THEN LET k == CHOOSE i \in 1..Len(text) :
                     text[i] = SEP /\ \A j \in 1..(i - 1) : text[j] # SEP
         IN  <<SubSeq(text, 1, k - 1)>> \o Components(SubSeq(text, k + 1, Len(text)))
    ELSE <<text>>

IsName(component) == component # <<>> /\ component # <<".">>

\* the directory a path names: empty components (a doubled or trailing
\* separator) and "." name nothing
DirectoryOf(text) == SelectSeq(Components(text), IsName)

WorkspaceOf(mr_iid) == DirectoryOf(PathText(mr_iid))

\* str(iid) for the iid 7, the iid 8 and the iid "7/"
MrIds == { <<"7">>, <<"8">>, <<"7", SEP>> }

Directories == { WorkspaceOf(id) : id \in MrIds }

\* a call made for a merge request, with the directories before and after
Touched(fn, mr_iid, before, after) ==
    [fn |-> fn, mr_iid |-> mr_iid, before |-> before, after |-> after]

SyncRepositoryFor ==
    /\ Len(history) < MaxCalls
    /\ \E id \in MrIds :
         \E outcomes \in OutcomeSeqs(SyncStatements(fs[WorkspaceOf(id)])) :
            /\ FeasibleRun(fs[WorkspaceOf(id)], PStr("feat"),
                           sync_repository(fs[WorkspaceOf(id)], PStr("feat"), outcomes).ran)
            /\ fs' = [fs EXCEPT ![WorkspaceOf(id)] =
                         sync_repository(@, PStr("feat"), outcomes).state]
            /\ history' = Append(history, Touched("sync_repository", id, fs, fs'))
    /\ UNCHANGED workspaceRest

\* _run_aider_subprocess with cwd=workspace_path: --chat-mode ask, the
\* directory is left as it is
RunAiderFor ==
    /\ Len(history) < MaxCalls
    /\ \E id \in MrIds :
         /\ fs[WorkspaceOf(id)].dir
         /\ fs' = fs
         /\ history' = Append(history, Touched("_run_aider_subprocess", id, fs, fs'))
    /\ UNCHANGED workspaceRest

CleanupWorkspaceFor ==
    /\ Len(history) < MaxCalls
    /\ \E id \in MrIds : \E outcome \in PyOutcomes :
         /\ FeasibleRun(fs[WorkspaceOf(id)], NONE,
                        cleanup_workspace(fs[WorkspaceOf(id)], outcome).ran)
         /\ fs' = [fs EXCEPT ![WorkspaceOf(id)] = cleanup_workspace(@, outcome).state]
         /\ history' = Append(history, Touched("cleanup_workspace", id, fs, fs'))
    /\ UNCHANGED workspaceRest

\* each directory holds nothing or a checkout
PartitionInit ==
    /\ events = <<>>
    /\ tasks = <<>>
    /\ calls = <<>>
    /\ history = <<>>
    /\ log = <<>>
    /\ fs \in [Directories -> {Absent, Checkout(PStr("feat"))}]

---------------------------------------------------------------------------
(* One call of a git function with all that an operator can observe of it: *)
(* the lines it logs and whether it returns.  A log line is a sequence of  *)
(* pieces of text.  git prints to stderr what it likes, and it may quote   *)
(* the URL of the remote; a command may also never exit.                   *)

\* config.py lines 33-36 and main.py line 54: the URL with the access token
GITLAB_TOKEN == "<gitlab_token>"
repo_url_template ==
    <<"http://oauth2:", GITLAB_TOKEN, "@", "<gitlab_host>", "/", "<project_path>", ".git">>

Mentions(line, piece) == \E i \in 1..Len(line) : line[i] = piece

\* what git prints when it fails: a message about the branch, or a message
\* that quotes the URL it was given
GitStderrs ==
    { <<"fatal: Remote branch not found">>,
      <<"fatal: unable to access '">> \o repo_url_template \o <<"'">> }

\* a command that never exits
NeverReturns == [kind |-> "never", returncode |-> 0, stdout |-> <<>>, stderr |-> <<>>]

\* the timeout handed to subprocess.run for a git command: none
\* (git_service.py lines 51-54, 70-73, 88-95; main.py lines 66-82)
NO_TIMEOUT == "none"
GitTimeout == NO_TIMEOUT

\* subprocess.run(..., timeout=t) of a command that never exits: with a
\* timeout it raises TimeoutExpired, without one it does not return
Bounded(outcome, timeout) ==
    IF outcome.kind = "never" /\ timeout # NO_TIMEOUT THEN TimedOut ELSE outcome

ObservedGitOutcomes ==
    GitOutcomes
        \cup { Exited(128, <<>>, err) : err \in GitStderrs }
        \cup { Bounded(NeverReturns, GitTimeout) }

ObservedOutcomeSeqs(cmds) ==
    { o \in [1..Len(cmds) -> ObservedGitOutcomes \cup PyOutcomes] :
        \A i \in 1..Len(cmds) :
            o[i] \in (IF cmds[i] \in PyStatements THEN PyOutcomes ELSE ObservedGitOutcomes) }

\* the call is stuck in a statement that does not return
Blocks(ran) == \E i \in 1..Len(ran) : ran[i].outcome.kind = "never"

\* the except branches of sync_repository (lines 75-81): CalledProcessError
\* logs the exit code and the decoded stderr, any other exception its text
SyncErrorLines(mr_iid, ran) ==
    IF ran = <<>> \/ Passes(ran[Len(ran)].outcome) \/ Blocks(ran) THEN <<>>
    ELSE IF ran[Len(ran)].outcome.kind = "exit"
    THEN << <<"git command failed", mr_iid, "<returncode>">> \o ran[Len(ran)].outcome.stderr >>
    ELSE << <<"git sync error", mr_iid, "<str(e)>">> >>

\* the lines sync_repository logs (lines 49-50, 64, 69, 76-77, 80)
SyncLog(mr_iid, state, source_branch, ran) ==
    (IF state.git
     THEN << <<"existing workspace, pull", mr_iid>>, <<"source_branch:", source_branch.v>> >>
     ELSE << <<"new workspace, clone", mr_iid>> >>
            \o (IF Len(ran) > Len(PrepareStatements(state))
                THEN << <<"source_branch:", source_branch.v>> >> ELSE <<>>))
        \o SyncErrorLines(mr_iid, ran)

\* main.py run_aider_with_cache, lines 51-96: the same statements as
\* sync_repository, followed by the fetch of the target branch
MainStatements(state) == SyncStatements(state) \o <<"git fetch">>

\* the lines run_aider_with_cache logs up to its git diff (lines 55, 64-65,
\* 70, 76-77, 83, 91-96): before git clone it logs the URL
MainLog(mr_iid, state, source_branch, ran) ==
    << <<"workspace:", "<mr_workspace>">> >>
        \o (IF state.git
            THEN << <<"existing workspace, pull", mr_iid>>,
                    <<"source_branch:", source_branch.v>> >>
            ELSE << <<"new workspace, clone", mr_iid>> >>
                   \o (IF Len(ran) > Len(PrepareStatements(state))
                       THEN << <<"repo_url:">> \o repo_url_template,
                               <<"source_branch:", source_branch.v>> >>
                       ELSE <<>>))
        \o (IF Len(ran) = Len(MainStatements(state))
            THEN << <<"extracting diff", mr_iid>> >> ELSE <<>>)
        \o SyncErrorLines(mr_iid, ran)

\* one call, recorded in history with the lines it logged
Observe(fn, branch, cmds, outcomes) ==
    LET ran == RunUntilRaise(cmds, outcomes)
    IN  /\ FeasibleRun(fs[ThePath], branch, ran)
        /\ history' = Append(history,
              Called(fn, branch, fs[ThePath],
                     [ran |-> ran, ret |-> Completes(cmds, ran),
                      state |-> StateAfterAll(fs[ThePath], branch, ran)]))
        /\ fs' = [fs EXCEPT ![ThePath] = StateAfterAll(@, branch, ran)]

SyncRepositoryObserved ==
    /\ history = <<>>
    /\ \E b \in Branches : \E outcomes \in ObservedOutcomeSeqs(SyncStatements(fs[ThePath])) :
         /\ Observe("sync_repository", b, SyncStatements(fs[ThePath]), outcomes)
         /\ log' = SyncLog("7", fs[ThePath], b,
                           RunUntilRaise(SyncStatements(fs[ThePath]), outcomes))
    /\ UNCHANGED workspaceOthers

RunAiderWithCacheObserved ==
    /\ history = <<>>
    /\ \E b \in Branches : \E outcomes \in ObservedOutcomeSeqs(MainStatements(fs[ThePath])) :
         /\ Observe("run_aider_with_cache", b, MainStatements(fs[ThePath]), outcomes)
         /\ log' = MainLog("7", fs[ThePath], b,
                           RunUntilRaise(MainStatements(fs[ThePath]), outcomes))
    /\ UNCHANGED workspaceOthers

---------------------------------------------------------------------------
(* Properties of route_webhook (specification SpecRoute)                   *)

\* what the payload says, read without the router: a key that is missing,
\* null or of another type carries nothing
AttributeOf(p, key) ==
    IF IsObj(Get(p, "object_attributes")) THEN Get(Get(p, "object_attributes"), key)
    ELSE NONE

CommentOf(p) ==
    IF AttributeOf(p, "note").k = "text" THEN Lower(AttributeOf(p, "note").v) ELSE <<>>

\* the status the rules of C1 give a payload
StatusByRules(p) ==
    IF Get(p, "object_kind") = PStr("note")
    THEN (IF Get(p, "merge_request") # NONE /\ Contains(CommentOf(p), MENTION)
          THEN "queued" ELSE "ignored")
    ELSE IF Get(p, "object_kind") = PStr("merge_request")
    THEN (IF AttributeOf(p, "action") = PStr("open") THEN "overview_queued"
          ELSE IF \/ AttributeOf(p, "state") \in {PStr("closed"), PStr("merged")}
                  \/ AttributeOf(p, "action") \in {PStr("close"), PStr("merge")}
          THEN "cleanup_queued"
          ELSE "ignored")
    ELSE "ignored"

\* the task the rules of C1 pair with a status
TaskByRules(status) ==
    CASE status = "queued" -> "handle_comment_task"
      [] status = "overview_queued" -> "handle_overview_task"
      [] status = "cleanup_queued" -> "cleanup_workspace"
      [] OTHER -> "none"

\* C1: every payload is classified by the rules in their order: a note on a
\* merge request whose lower-cased comment holds the mention is "queued" with
\* a comment task; a merge_request event with action "open" is
\* "overview_queued" with an overview task carrying the MR id, the branches
\* and the title, whatever its state; otherwise state closed/merged or action
\* close/merge is "cleanup_queued" with a cleanup task; every other payload is
\* "ignored" and schedules nothing.
C1_RouteRules ==
    route_pc = "done" =>
        /\ response = StatusByRules(payload)
        /\ IF response = "ignored" THEN scheduled = <<>>
           ELSE /\ Len(scheduled) = 1
                /\ scheduled[1].fn = TaskByRules(response)
        /\ response = "overview_queued" =>
              /\ scheduled[1].mr_iid = PyStr(AttributeOf(payload, "iid"))
              /\ scheduled[1].source_branch = AttributeOf(payload, "source_branch")
              /\ scheduled[1].target_branch
                     = GetOr(Get(payload, "object_attributes"), "target_branch", PStr("main"))
              /\ scheduled[1].original_title
                     = GetOr(Get(payload, "object_attributes"), "title", PStr(""))

\* C16: route_webhook answers every payload with one of its five statuses;
\* it never raises
C16_RouteAlwaysAnswers ==
    route_pc = "done" =>
        response \in {"ignored", "queued", "auto_review_queued", "overview_queued",
                      "cleanup_queued"}

---------------------------------------------------------------------------
(* Properties of split_diff_into_chunks (specification SpecChunk)          *)

\* C5, as stated: for every diff text D and every limit L > 0 the call
\* returns at least one chunk, every chunk is at most L long and no chunk is
\* empty, also when D is empty or holds no file header.
C5_ChunksBoundedNonEmpty ==
    chunk_pc = "done" =>
        /\ Len(chunks) >= 1
        /\ \A i \in 1..Len(chunks) :
              Len(chunks[i]) <= max_chars /\ chunks[i] # <<>>

\* C5, amended: for every diff text D and every limit L > 0 the call returns
\* at least one chunk and every chunk is at most L long; no chunk is empty
\* unless D is empty, and for the empty D the result is the single empty chunk.
C5_ChunksBounded ==
    chunk_pc = "done" =>
        /\ Len(chunks) >= 1
        /\ \A i \in 1..Len(chunks) :
              /\ Len(chunks[i]) <= max_chars
              /\ (chunks[i] = <<>> => content = <<>>)
        /\ (content = <<>> => chunks = << <<>> >>)

\* a call that returned several chunks from a diff with an over-long section
C5_Witness ==
    /\ chunk_pc = "done"
    /\ Len(chunks) >= 2
    /\ \E i \in 1..Len(FileDiffs(content)) : Len(FileDiffs(content)[i]) > max_chars

\* the per-file segments of D as C6 counts them: the text before the first
\* file header (when there is some), then one segment per header; a text
\* without a header is one segment
SegmentsOfDiff(c) ==
    LET b == SortedSeq(Boundaries(c))
    IN  IF b = <<>> THEN <<c>>
        ELSE (IF b[1] > 1 THEN <<SubSeq(c, 1, b[1] - 1)>> ELSE <<>>) \o FileDiffs(c)

CutEach(segs, L) == [i \in 1..Len(segs) |-> Prefix(segs[i], L)]

RECURSIVE GroupsOf(_, _)
\* chs is segs cut into consecutive groups, each chunk the concatenation of
\* the whole segments of its group
GroupsOf(chs, segs) ==
    IF chs = <<>> THEN segs = <<>>
    ELSE \E k \in 1..Len(segs) :
            /\ Concat(SubSeq(segs, 1, k)) = Head(chs)
            /\ GroupsOf(Tail(chs), SubSeq(segs, k + 1, Len(segs)))

\* C6: the chunks, concatenated, are the per-file segments of D in their
\* order, each cut to its first L characters; nothing else of D is dropped,
\* the text before the first file header included, and no segment is split
\* across two chunks.
C6_ChunksReconstructDiff ==
    chunk_pc = "done" =>
        GroupsOf(chunks, CutEach(SegmentsOfDiff(content), max_chars))

\* the sections the packing loop is given, each cut to L: one per file
\* header, or the whole text when it has no file header
PackedSegments(c, L) ==
    CutEach(IF Boundaries(c) = {} THEN <<c>> ELSE FileDiffs(c), L)

\* a packing of segs in their order is the set K of the positions after
\* which a new chunk starts; the group of position j starts at GroupStart
GroupStart(K, j) ==
    IF \E k \in K : k < j
    THEN (CHOOSE k \in K : k < j /\ \A m \in K : m < j => m <= k) + 1
    ELSE 1

GroupEnds(segs, K) == SortedSeq(K \cup {Len(segs)})

ChunksOf(segs, K) ==
    [i \in 1..Len(GroupEnds(segs, K)) |->
        Concat(SubSeq(segs, GroupStart(K, GroupEnds(segs, K)[i]), GroupEnds(segs, K)[i]))]

Fits(segs, K, L) ==
    \A i \in 1..Len(ChunksOf(segs, K)) : Len(ChunksOf(segs, K)[i]) <= L

\* C24: the chunks are the greedy packing of the cut sections: a new chunk
\* starts after a section exactly when the chunk so far and the next section
\* together are longer than L; so each chunk and the first section of the
\* next chunk together are longer than L, and no packing of the sections
\* in their order with every chunk at most L long has fewer chunks.
C24_GreedyPacking ==
    chunk_pc = "done" =>
        LET segs == PackedSegments(content, max_chars)
        IN  \E K \in SUBSET (1..(Len(segs) - 1)) :
                /\ chunks = ChunksOf(segs, K)
                /\ \A j \in 1..(Len(segs) - 1) :
                      j \in K <=>
                          Len(Concat(SubSeq(segs, GroupStart(K, j), j)))
                              + Len(segs[j + 1]) > max_chars
                /\ \A i \in 1..(Len(chunks) - 1) :
                      Len(chunks[i]) + Len(segs[GroupEnds(segs, K)[i] + 1]) > max_chars
                /\ \A K2 \in SUBSET (1..(Len(segs) - 1)) :
                      Fits(segs, K2, max_chars) => Cardinality(K2) >= Cardinality(K)

\* a call that put two sections into one chunk and started a second chunk
C24_Witness ==
    /\ chunk_pc = "done"
    /\ Len(chunks) >= 2
    /\ Len(PackedSegments(content, max_chars)) > Len(chunks)

---------------------------------------------------------------------------
(* Properties of parse_overview_output (specification SpecParse)           *)

\* the result C7 describes: the fallback is taken only when no line starts
\* with "TITLE:"
ParseAsClaimed(r) ==
    LET lines == SplitLines(Strip(r))
        idx == TitleLineIdx(lines)
    IN  IF idx = 0
        THEN [title |-> <<>>, description |-> r]
        ELSE [title |-> Strip(From(Strip(lines[idx]), Len(TITLE_MARK) + 1)),
              description |->
                  Strip(JoinLines(SubSeq(lines, DescStart(lines, idx), Len(lines))))]

\* C7: the title is the trimmed remainder of the first "TITLE:" line, the
\* description the lines after a "---" found among the next three lines,
\* else the lines after the title line; the empty title with the whole raw
\* text is returned only when no line starts with "TITLE:".
C7_ParseRule ==
    parse_pc = "done" => parsed = ParseAsClaimed(raw)

---------------------------------------------------------------------------
(* Properties of _run_aider_subprocess                                     *)

\* the four conditions under which the call is said to give a text
SubprocessSucceeded(pr) ==
    /\ pr.kind = "exit"
    /\ pr.returncode = 0
    /\ ~MatchesSignature(SanitizedStdout(pr.stdout))
    /\ ~MatchesSignature(SanitizedStderr(pr.stderr))
    /\ SanitizedStdout(pr.stdout) # <<>>

\* C4: a finished call of _run_aider_subprocess has returned the sanitized
\* stdout when the subprocess did not time out, exited with code 0, showed
\* no failure signature on sanitized stdout or on stderr and left a
\* non-empty sanitized stdout, and has returned None in every other case
C4_ReturnsTextIffSucceeded ==
    aider_pc = "done" =>
        aider_ret = IF SubprocessSucceeded(proc)
                    THEN AiderText(SanitizedStdout(proc.stdout))
                    ELSE AiderNone

---------------------------------------------------------------------------
(* Properties of run_aider_overview                                        *)

Ended(r) == r.pc \in {"publish", "post_mr_comment", "returned", "raised"}

\* the chunks of the diff a task holds
ChunksOfDiff(r) == split_diff_into_chunks(r.diff.content, settings.diff_max_chars)

\* C8: a task that has chunked its diff is on the map/reduce path exactly
\* when the diff yields more than one chunk; with exactly one chunk it
\* invokes the assistant with the overview prompt on the whole diff and
\* with nothing else, at most once, and exactly once when the overview ends
C8_SinglePathIffOneChunk ==
    \A t \in DOMAIN tasks :
        tasks[t].path # "none" =>
            /\ (tasks[t].path = "map_reduce") <=> (Len(ChunksOfDiff(tasks[t])) > 1)
            /\ Len(ChunksOfDiff(tasks[t])) = 1 =>
                 /\ Len(tasks[t].invocations) <= 1
                 /\ \A i \in DOMAIN tasks[t].invocations :
                       tasks[t].invocations[i].prompt =
                           build_overview_prompt(tasks[t].diff, tasks[t].call.original_title)
                 /\ Ended(tasks[t]) => Len(tasks[t].invocations) = 1

\* an overview over a diff with a file section ended after its one invocation
C8_Witness ==
    \E t \in DOMAIN tasks :
        /\ tasks[t].path = "single"
        /\ Boundaries(tasks[t].diff.content) # {}
        /\ Ended(tasks[t])
        /\ Len(tasks[t].invocations) = 1
        /\ tasks[t].invocations[1].prompt.kind = "overview"

\* some invocation of the first n gave a text
Produced(inv, n) == \E i \in 1..n : inv[i].ret.kind = "text"

\* C9: when an overview on the map/reduce path over n chunks has ended, its
\* invocations are the n chunk invocations, chunk i at position i, followed
\* by one aggregation invocation exactly when some chunk invocation gave
\* output; without any output there is no aggregation and the overview
\* has failed
C9_MapThenReduce ==
    \A t \in DOMAIN tasks :
        (tasks[t].path = "map_reduce" /\ Ended(tasks[t])) =>
            /\ Len(tasks[t].invocations) >= Len(tasks[t].chunks)
            /\ \A i \in DOMAIN tasks[t].chunks :
                  tasks[t].invocations[i].prompt =
                      build_chunk_analysis_prompt(tasks[t].chunks[i], i, Len(tasks[t].chunks))
            /\ IF Produced(tasks[t].invocations, Len(tasks[t].chunks))
               THEN /\ Len(tasks[t].invocations) = Len(tasks[t].chunks) + 1
                    /\ tasks[t].invocations[Len(tasks[t].chunks) + 1].prompt.kind = "aggregate"
               ELSE /\ Len(tasks[t].invocations) = Len(tasks[t].chunks)
                    /\ tasks[t].pc = "returned"

---------------------------------------------------------------------------
(* Properties of the tasks                                                 *)

CallsOf(t) == LET ByTask(c) == c.task = t IN SelectSeq(calls, ByTask)

\* C2: a stage that failed is the last stage of its task: the task has
\* returned, no stage of it ran twice, and it issued no GitLab call
C2_FailedStageEndsTask ==
    \A t \in DOMAIN tasks :
        \A i \in DOMAIN tasks[t].trace :
            tasks[t].trace[i].outcome = "failed" =>
                /\ i = Len(tasks[t].trace)
                /\ tasks[t].pc = "returned"
                /\ \A j, k \in DOMAIN tasks[t].trace :
                      j # k => tasks[t].trace[j].stage # tasks[t].trace[k].stage
                /\ CallsOf(t) = <<>>

\* an overview task whose sync and diff extraction succeeded and whose
\* assistant returned None
C2_Witness ==
    \E t \in DOMAIN tasks :
        /\ tasks[t].trace = <<Done("sync", "ok"), Done("diff", "ok"), Done("assistant", "failed")>>
        /\ tasks[t].invocations # <<>>
        /\ tasks[t].pc = "returned"

Succeeded(r, stage) == \E i \in DOMAIN r.trace : r.trace[i] = Done(stage, "ok")

\* C3: an overview task whose sync, diff extraction and assistant succeeded
\* and which has ended has returned, having issued exactly one update of
\* the merge request, with the parsed title and description
C3_OverviewPublishesOnce ==
    \A t \in DOMAIN tasks :
        ( /\ tasks[t].call.fn = "handle_overview_task"
          /\ Succeeded(tasks[t], "sync")
          /\ Succeeded(tasks[t], "diff")
          /\ Succeeded(tasks[t], "assistant")
          /\ tasks[t].pc \in {"returned", "raised"} ) =>
            /\ tasks[t].pc = "returned"
            /\ CallsOf(t) = << [api |-> "update_mr", task |-> t,
                                project_id |-> tasks[t].call.project_id,
                                mr_iid |-> tasks[t].call.mr_iid,
                                title |-> tasks[t].result.title,
                                description |-> tasks[t].result.description] >>

\* a task is inside sync_repository on the path
SyncInProgress(path) ==
    \E t \in DOMAIN tasks :
        /\ PathOf(t) = path
        /\ tasks[t].pc \in {"sync_repository", "git_update", "git_clone"}

\* C10: a workspace path on which no sync is in progress is absent or holds
\* a checkout of the merge request's source branch
C10_WorkspaceAbsentOrCheckout ==
    \A path \in WorkspacePaths :
        ~SyncInProgress(path) =>
            fs[path] \in {Absent, Checkout(MergeRequest7.source_branch)}

\* a task is inside an operation on the workspace: the git commands of
\* sync_repository, after its test for a checkout
InsideWorkspace(t) == tasks[t].pc \in {"git_update", "git_clone"}

\* C11: no two tasks of one merge request are inside an operation on its
\* workspace at the same time
C11_WorkspaceOwnedByOneTask ==
    \A t, u \in DOMAIN tasks :
        (t # u /\ PathOf(t) = PathOf(u)) => ~(InsideWorkspace(t) /\ InsideWorkspace(u))

\* every task scheduled so far has ended
AllTasksEnded == \A t \in DOMAIN tasks : tasks[t].pc \in {"returned", "raised"}

\* C13: when the last webhook routed was the close of the merge request and
\* every task scheduled for it has ended, its workspace is absent
C13_WorkspaceDeletedOnClosure ==
    (Len(events) > 0 /\ events[Len(events)] = "cleanup_queued" /\ AllTasksEnded)
        => fs[get_workspace_path("7")] = Absent

\* what a step that routes a webhook does: one status is answered; the
\* tasks scheduled before are as they were; no task is added with
\* "ignored", one with any other status, and the added task has not started
\* any stage; no workspace and no GitLab call is touched
RoutesOnly ==
    LET status == events'[Len(events')]
        added == Len(tasks') - Len(tasks)
    IN  /\ Len(events') = Len(events) + 1
        /\ SubSeq(events', 1, Len(events)) = events
        /\ Len(tasks') >= Len(tasks)
        /\ SubSeq(tasks', 1, Len(tasks)) = tasks
        /\ added = IF status = "ignored" THEN 0 ELSE 1
        /\ added = 1 =>
             /\ tasks'[Len(tasks')].pc = "start"
             /\ tasks'[Len(tasks')].trace = <<>>
             /\ tasks'[Len(tasks')].invocations = <<>>
        /\ fs' = fs
        /\ calls' = calls

\* C17: routing a webhook schedules one task for a status other than
\* "ignored" and none for "ignored", and runs no stage of it; tasks are
\* scheduled by routing only; and the next webhook can be routed whatever
\* the tasks in flight are doing
C17_RouteSchedulesWithoutRunning ==
    /\ [][ /\ events' # events => RoutesOnly
           /\ events' = events => Len(tasks') = Len(tasks) ]_vars
    /\ [](Len(events) < MaxEvents => ENABLED Webhook)

\* a second webhook has been routed and its task has not started, while the
\* task of the first is inside git clone
C17_Witness ==
    /\ Len(events) = 2 /\ Len(tasks) = 2
    /\ tasks[1].pc = "git_clone"
    /\ tasks[2].pc = "start" /\ tasks[2].trace = <<>>

\* the stages of handle_overview_task in the order of its code, and the
\* stage a task is in
OverviewStages == <<"sync", "diff", "assistant", "parse", "publish">>

StageIn(pc) ==
    CASE pc \in {"sync_repository", "git_update", "git_clone"} -> 1
      [] pc = "extract_diff" -> 2
      [] pc \in {"run_aider_overview", "single", "map"} -> 3
      [] pc = "publish" -> 5
      [] OTHER -> 0

\* C18: in an overview task the stages that have finished are the first
\* stages of the order sync, diff, assistant, parse, publish, each once and
\* each but the last with success; a task that is inside a stage has
\* finished exactly the stages before it (the parse is part of the
\* assistant stage's call and finishes with it)
C18_OverviewStagesInOrder ==
    \A t \in DOMAIN tasks :
        tasks[t].call.fn = "handle_overview_task" =>
            LET r == tasks[t]
                n == Len(r.trace)
            IN  /\ n <= Len(OverviewStages)
                /\ \A i \in 1..n : r.trace[i].stage = OverviewStages[i]
                /\ \A i \in 1..(n - 1) : r.trace[i].outcome = "ok"
                /\ StageIn(r.pc) = 3 => n = 2
                /\ StageIn(r.pc) \in {1, 2, 5} => n = StageIn(r.pc) - 1
                /\ n = Len(OverviewStages) => r.pc \in {"returned", "raised"}

\* an overview task that went through all five stages
C18_Witness ==
    \E t \in DOMAIN tasks :
        /\ tasks[t].call.fn = "handle_overview_task"
        /\ Len(tasks[t].trace) = 5
        /\ tasks[t].trace[5].stage = "publish"
        /\ Len(tasks[t].invocations) > 0

\* C19: no assistant invocation raises, and no task ends by an exception of
\* its assistant stage
C19_AssistantNeverRaises ==
    \A t \in DOMAIN tasks :
        /\ \A i \in 1..Len(tasks[t].invocations) : tasks[t].invocations[i].ret.kind # "raised"
        /\ \A i \in 1..Len(tasks[t].trace) : tasks[t].trace[i] # Done("assistant", "raised")

\* the answer to the last invocation of a task, and an answer without a
\* line that starts with "TITLE:"
LastInvocation(r) == r.invocations[Len(r.invocations)]

HasNoTitleLine(text) ==
    \A i \in 1..Len(SplitLines(Strip(text))) :
        ~StartsWith(Strip(SplitLines(Strip(text))[i]), TITLE_MARK)

\* C20: an overview task whose assistant answered the overview or aggregate
\* prompt with a text without a "TITLE:" line, and which has ended, has
\* returned after one update of the merge request whose description is the
\* whole text and whose title is not the empty string
C20_UntitledOverviewKeepsTitle ==
    \A t \in DOMAIN tasks :
        ( /\ tasks[t].call.fn = "handle_overview_task"
          /\ tasks[t].invocations # <<>>
          /\ LastInvocation(tasks[t]).prompt.kind \in {"overview", "aggregate"}
          /\ LastInvocation(tasks[t]).ret.kind = "text"
          /\ HasNoTitleLine(LastInvocation(tasks[t]).ret.text)
          /\ tasks[t].pc \in {"returned", "raised"} ) =>
            /\ tasks[t].pc = "returned"
            /\ Len(CallsOf(t)) = 1
            /\ CallsOf(t)[1].api = "update_mr"
            /\ CallsOf(t)[1].description = LastInvocation(tasks[t]).ret.text
            /\ CallsOf(t)[1].title # <<>>

\* an invocation of the map loop whose result was appended (lines 147-148)
IsPartial(inv) ==
    inv.prompt.kind = "chunk" /\ inv.ret.kind = "text" /\ inv.ret.text # <<>>

\* C23: in the aggregation prompt every partial analysis carries the index
\* of the chunk it was produced from, whatever happened to earlier chunks.
C23_AnalysesLabelledByChunk ==
    \A t \in DOMAIN tasks : \A n \in 1..Len(tasks[t].invocations) :
        tasks[t].invocations[n].prompt.kind = "aggregate" =>
            \A j \in 1..Len(tasks[t].invocations[n].prompt.analyses) :
                tasks[t].invocations[n].prompt.analyses[j].label
                    = SelectSeq(tasks[t].invocations, IsPartial)[j].prompt.idx

\* the diff text a prompt embeds
EmbeddedDiff(prompt) ==
    IF prompt.kind = "overview" THEN prompt.diff
    ELSE IF prompt.kind = "chunk" THEN prompt.chunk
    ELSE <<>>

\* C25: every prompt built from a diff and handed to the assistant
\* subprocess, the overview prompt of the single path and the chunk prompts
\* of the map path, embeds at most diff_max_chars characters of the diff.
C25_PromptDiffBounded ==
    \A t \in DOMAIN tasks : \A n \in 1..Len(tasks[t].invocations) :
        tasks[t].invocations[n].ret.kind # "raised" =>
            Len(EmbeddedDiff(tasks[t].invocations[n].prompt)) <= settings.diff_max_chars

---------------------------------------------------------------------------
(* Properties of the calls on one workspace (specification SpecWorkspace)  *)

CallsOn(fn) == { i \in 1..Len(history) : history[i].fn = fn }

\* C12: a call of cleanup_workspace never raises; on a path that does not
\* exist it runs nothing and leaves the path as it is; when rmtree fails
\* the call returns and the path is left as it was, else the path is
\* absent; a second call right after one that left the path absent leaves
\* it absent
C12_CleanupNeverRaises ==
    \A i \in CallsOn("cleanup_workspace") :
        LET c == history[i]
        IN  /\ c.ret = "returned"
            /\ ~c.found.dir => (c.ran = <<>> /\ c.left = c.found)
            /\ c.found.dir =>
                 /\ Len(c.ran) = 1 /\ c.ran[1].cmd = "rmtree"
                 /\ c.left = IF Passes(c.ran[1].outcome) THEN Absent ELSE c.found
            /\ (i > 1 /\ (i - 1) \in CallsOn("cleanup_workspace")
                  /\ history[i - 1].left = Absent) => c.left = Absent

\* three calls in a row: rmtree fails and the call returns, the next call
\* deletes the path, the third finds nothing to delete
C12_Witness ==
    /\ Len(history) = 3
    /\ CallsOn("cleanup_workspace") = {1, 2, 3}
    /\ history[1].ran = <<Ran("rmtree", PyRaised)>>
    /\ history[1].ret = "returned" /\ history[1].left = history[1].found
    /\ history[2].ran = <<Ran("rmtree", PyReturned)>> /\ history[2].left = Absent
    /\ history[3].ran = <<>> /\ history[3].ret = "returned" /\ history[3].left = Absent

IsPrefix(s, t) == Len(s) <= Len(t) /\ \A i \in 1..Len(s) : s[i] = t[i]

Commands(ran) == [i \in 1..Len(ran) |-> ran[i].cmd]

ExitedZero(ran) ==
    \A i \in 1..Len(ran) :
        ran[i].outcome.kind \in {"returned", "exit"} /\ ran[i].outcome.returncode = 0

\* C14: a call of sync_repository runs, in order, fetch, checkout and pull on
\* a checkout; rmtree, makedirs and clone on a path that exists without a
\* checkout; makedirs and clone on an absent path.  The first statement
\* that fails is the last that runs.  The call returns True exactly when
\* all of them ran and none failed, and then the path is a checkout of the
\* source branch.
C14_SyncRunsUntilFirstFailure ==
    \A i \in CallsOn("sync_repository") :
        LET c == history[i]
            expected ==
                IF c.found.git THEN <<"git fetch", "git checkout", "git pull">>
                ELSE IF c.found.dir THEN <<"rmtree", "makedirs", "git clone">>
                ELSE <<"makedirs", "git clone">>
        IN  /\ c.ran # <<>>
            /\ IsPrefix(Commands(c.ran), expected)
            /\ ExitedZero(SubSeq(c.ran, 1, Len(c.ran) - 1))
            /\ c.ret = (Len(c.ran) = Len(expected) /\ ExitedZero(c.ran))
            /\ c.ret => c.left = Checkout(c.branch)

\* on a checkout the fetch exits with 0 and the checkout with 128: the pull
\* does not run and the call returns False
C14_Witness ==
    \E i \in CallsOn("sync_repository") :
        /\ history[i].found.git
        /\ history[i].ran = << Ran("git fetch", Exited(0, <<>>, <<>>)),
                               Ran("git checkout", Exited(128, <<>>, <<>>)) >>
        /\ history[i].ret = FALSE

\* C15: a call of extract_diff whose fetch does not exit with 0 runs no diff
\* command and returns None; after a fetch that exits with 0 the diff
\* command runs, and whatever its exit code the call returns a DiffResult
\* that holds what the command printed
C15_DiffStdoutReturnedWhateverExit ==
    \A i \in CallsOn("extract_diff") :
        LET c == history[i]
        IN  /\ c.ran # <<>> /\ c.ran[1].cmd = "git fetch"
            /\ IF ~ExitedZero(<<c.ran[1]>>)
               THEN Len(c.ran) = 1 /\ c.ret = NoDiff
               ELSE /\ Len(c.ran) = 2 /\ c.ran[2].cmd = "git diff"
                    /\ c.ran[2].outcome.kind = "exit"
                         => c.ret = DiffResult(c.ran[2].outcome.stdout)

---------------------------------------------------------------------------
(* Properties of one observed call (specification SpecObserved)           *)

\* C21: the URL that carries the access token never reaches a log line: no
\* line logged by a call holds the token.
C21_NoCredentialInLog ==
    \A i \in 1..Len(log) : ~Mentions(log[i], GITLAB_TOKEN)

\* C22: a call is bounded in time even when a command it runs never exits:
\* no call in the history is stuck in a statement that does not return.
C22_EveryCallReturns ==
    \A i \in 1..Len(history) : ~Blocks(history[i].ran)

---------------------------------------------------------------------------
(* Properties of the comment task on one workspace (specification         *)
(* SpecComment)                                                            *)

\* the call ran the statements of sync_repository
RanSync(c) == c.fn = "sync_repository" \/ (c.fn = "handle_comment_task" /\ c.ran # <<>>)

\* the sync of the call returned True
SyncCompleted(c) ==
    IF c.fn = "sync_repository" THEN c.ret ELSE c.ret = "run_aider_comment"

\* C26: a comment task runs sync_repository exactly when it finds no
\* checkout; on a checkout it runs no git command and invokes the assistant;
\* and whenever it invokes the assistant, the last sync run on the
\* workspace, its own or an earlier one, returned True.
C26_CommentAssistantAfterGoodSync ==
    \A i \in 1..Len(history) :
        history[i].fn = "handle_comment_task" =>
            /\ (history[i].ran # <<>>) <=> ~history[i].found.git
            /\ history[i].found.git => history[i].ret = "run_aider_comment"
            /\ history[i].ret = "run_aider_comment" =>
                  \A j \in 1..i :
                      (RanSync(history[j]) /\ \A k \in (j + 1)..i : ~RanSync(history[k]))
                          => SyncCompleted(history[j])

---------------------------------------------------------------------------
(* Properties of the workspaces of several merge requests (specification  *)
(* SpecPartition)                                                          *)

\* C27: a sync, an assistant invocation or a cleanup made for one merge
\* request id leaves the workspace of every other id as it was.
C27_OtherWorkspacesUntouched ==
    \A i \in 1..Len(history) :
        \A other \in MrIds \ {history[i].mr_iid} :
            history[i].after[WorkspaceOf(other)] = history[i].before[WorkspaceOf(other)]

---------------------------------------------------------------------------
(* Properties of the tasks of incomplete webhooks (specification          *)
(* SpecIncomplete)                                                         *)

IsHandler(call) == call.fn \in {"handle_comment_task", "handle_overview_task"}

\* the project id is empty, or the source branch is missing or empty
LacksProjectOrBranch(call) ==
    \/ call.project_id = ""
    \/ call.source_branch = NONE
    \/ call.source_branch = PStr("")

\* what a step of task t does when the task is a handler without a project
\* id or a source branch: it returns, having run no stage and invoked no
\* assistant, and no workspace and no GitLab call is touched; and when the
\* task is a cleanup: it does to the workspace what cleanup_workspace does,
\* whatever the project id of the webhook was
StepOfIncomplete(t) ==
    /\ (IsHandler(tasks[t].call) /\ LacksProjectOrBranch(tasks[t].call)) =>
          /\ tasks'[t].pc = "returned"
          /\ tasks'[t].trace = <<>>
          /\ tasks'[t].invocations = <<>>
          /\ fs' = fs
          /\ calls' = calls
    /\ tasks[t].call.fn = "cleanup_workspace" =>
          /\ tasks'[t].pc = "returned"
          /\ \E outcome \in PyOutcomes :
                fs'[PathOf(t)] = cleanup_workspace(fs[PathOf(t)], outcome).state
          /\ fs'[PathOf(t)] # fs[PathOf(t)] => fs'[PathOf(t)] = Absent

\* C28: a comment or overview task whose project id is empty or whose
\* source branch is missing does nothing: it creates and changes no
\* workspace, invokes no assistant and issues no publish call; a cleanup
\* task runs whatever the project id and deletes the workspace.
C28_IncompleteTaskDoesNothing ==
    [][\A t \in DOMAIN tasks : tasks'[t] # tasks[t] => StepOfIncomplete(t)]_vars

\* a handler task without a project id has returned, and the cleanup task
\* of a close without a project id has deleted the workspace
C28_Witness ==
    /\ \E t \in DOMAIN tasks :
          /\ IsHandler(tasks[t].call)
          /\ tasks[t].call.project_id = ""
          /\ tasks[t].pc = "returned"
    /\ \E t \in DOMAIN tasks :
          /\ tasks[t].call.fn = "cleanup_workspace"
          /\ tasks[t].pc = "returned"
    /\ fs[get_workspace_path("7")] = Absent

---------------------------------------------------------------------------
(* Specifications                                                          *)

NoSettings == settings = ConfigSettings(1)

InitChunk == ChunkInit /\ ParseIdle /\ RouteIdle /\ AiderIdle /\ TaskIdle /\ NoSettings

SpecChunk == InitChunk /\ [][SplitCall]_vars

InitParse == ParseInit /\ ChunkIdle /\ RouteIdle /\ AiderIdle /\ TaskIdle /\ NoSettings

SpecParse == InitParse /\ [][ParseCall]_vars

InitRoute == RouteInit /\ ChunkIdle /\ ParseIdle /\ AiderIdle /\ TaskIdle /\ NoSettings

SpecRoute == InitRoute /\ [][RouteCall]_vars

InitAider ==
    /\ AiderInit /\ ChunkIdle /\ ParseIdle /\ RouteIdle /\ TaskIdle
    /\ settings \in {ConfigSettings(1), SettingsWithModel(1)}

SpecAider == InitAider /\ [][AiderCall]_vars

InitOverview == OverviewInit /\ ChunkIdle /\ ParseIdle /\ RouteIdle /\ AiderIdle

NextOverview ==
    \/ \E t \in DOMAIN tasks : OverviewSplit(t)
    \/ \E t \in DOMAIN tasks : OverviewSingle(t)
    \/ \E t \in DOMAIN tasks : OverviewMapChunk(t)
    \/ \E t \in DOMAIN tasks : OverviewReduce(t)

SpecOverview == InitOverview /\ [][NextOverview]_vars

InitWorkspace ==
    WorkspaceInit /\ ChunkIdle /\ ParseIdle /\ RouteIdle /\ AiderIdle /\ NoSettings

NextWorkspace == SyncRepositoryCall \/ ExtractDiffCall \/ CleanupWorkspaceCall

SpecWorkspace == InitWorkspace /\ [][NextWorkspace]_vars

NextComment == SyncRepositoryCall \/ HandleCommentTaskCall

SpecComment == InitWorkspace /\ [][NextComment]_vars

InitPartition ==
    PartitionInit /\ ChunkIdle /\ ParseIdle /\ RouteIdle /\ AiderIdle /\ NoSettings

NextPartition == SyncRepositoryFor \/ RunAiderFor \/ CleanupWorkspaceFor

SpecPartition == InitPartition /\ [][NextPartition]_vars

InitIncomplete == IncompleteInit /\ ChunkIdle /\ ParseIdle /\ RouteIdle /\ AiderIdle

NextIncomplete ==
    \/ WebhookIncomplete
    \/ \E t \in DOMAIN tasks : HandlerStart(t)
    \/ \E t \in DOMAIN tasks : Cleanup(t)

SpecIncomplete == InitIncomplete /\ [][NextIncomplete]_vars

NextObserved == SyncRepositoryObserved \/ RunAiderWithCacheObserved

SpecObserved == InitWorkspace /\ [][NextObserved]_vars

Init == TaskInit /\ ChunkIdle /\ ParseIdle /\ RouteIdle /\ AiderIdle

Next ==
    \/ Webhook
    \/ \E t \in DOMAIN tasks : HandlerStart(t)
    \/ \E t \in DOMAIN tasks : SyncStart(t)
    \/ \E t \in DOMAIN tasks : SyncUpdate(t)
    \/ \E t \in DOMAIN tasks : SyncClone(t)
    \/ \E t \in DOMAIN tasks : ExtractDiff(t)
    \/ \E t \in DOMAIN tasks : OverviewSplit(t)
    \/ \E t \in DOMAIN tasks : OverviewSingle(t)
    \/ \E t \in DOMAIN tasks : OverviewMapChunk(t)
    \/ \E t \in DOMAIN tasks : OverviewReduce(t)
    \/ \E t \in DOMAIN tasks : Publish(t)
    \/ \E t \in DOMAIN tasks : CommentAsk(t)
    \/ \E t \in DOMAIN tasks : PostComment(t)
    \/ \E t \in DOMAIN tasks : Cleanup(t)

Spec == Init /\ [][Next]_vars

=============================================================================
